---------------------------- MODULE Spec2Model ----------------------------
(***************************************************************************)
(* A model of the module kernel of Dirold2/sprut:                          *)
(*   - Module         (src/src/core/Module.ts): the per-module lifecycle   *)
(*                     state machine, its hooks and its error handling;    *)
(*   - ModuleManager  (src/src/core/ModuleManager.ts): the registry, the   *)
(*                     topological scheduler, the three passes, module     *)
(*                     creation and the recovery supervisor;               *)
(*   - ModuleMemoryInspector.takeSnapshot (which modules get a ring).      *)
(*                                                                         *)
(* Asynchrony.  The program is single-threaded with await points.  A step  *)
(* of the model runs one piece of code from the point where it is called   *)
(* or resumed up to the next point where it awaits an on* hook of a        *)
(* module; the pending hook is an element of `calls`, and it later         *)
(* returns (hookReturns) or throws (hookThrows), which resumes the code    *)
(* that awaited it.  Any other operation may run between the two.          *)
(***************************************************************************)
EXTENDS Naturals, Integers, Sequences, FiniteSets, Bags, TLC

(***************************************************************************)
(* Bounds of the model.                                                    *)
(***************************************************************************)
\* longest `dependencies` array of a module's metadata
MaxDeps == 2

\* recovery.maxAttempts: an option of the constructor (default 3); the model
\* runs the manager with a smaller value
MaxAttempts == 2

\* memoryInspector.maxSnapshots: an option (default 12); the largest ring
\* the model runs the inspector with
MaxSnapshots == 2

\* Date.now() takes the values 0..MaxTime
MaxTime == 3

\* process.memoryUsage().heapUsed takes the values 0..MaxHeap
MaxHeap == 1

\* most calls of analyzeMemory waiting for their timer
MaxAnalyses == 1

\* most dot-separated components of a version string
MaxComponents == 3

\* a counted event saturates at this many occurrences
MaxEvents == 3

\* most recovery timers pending for one module
MaxTimers == 2

\* most on* hooks in progress at once when a module is driven directly
MaxInFlight == 2

\* a counter of the health metrics is followed up to this value
MaxCalls == 2

(***************************************************************************)
(* Program constants.                                                      *)
(***************************************************************************)
\* Module.priority: `this.metadata.priority ?? 50`
DefaultPriority == 50

\* a metadata.priority above the default one
HighPriority == DefaultPriority + 50

(***************************************************************************)
(* The universe: module names, and module objects.  "A2" is a second       *)
(* object whose metadata.name is "A" (a second instance of the class).     *)
(***************************************************************************)
Names == {"A", "B", "C"}

Objs == {"A", "B", "C", "A2"}

NameOf(o) == IF o = "A2" THEN "A" ELSE o

ModuleStates ==
    {"UNINITIALIZED", "INITIALIZING", "INITIALIZED", "STARTING", "RUNNING",
     "STOPPING", "STOPPED", "ERROR"}

PriorityLevels == {DefaultPriority, HighPriority}

VARIABLES
    \* ---- static metadata and options (chosen by Init, never changed)
    dependencies,    \* metadata.dependencies : [Names -> Seq(Names)]
    priority,        \* metadata.priority ?? 50 : [Names -> Nat]
    disabled,        \* metadata.disabled      : [Names -> BOOLEAN]
    configDisabled,  \* config[name].disabled === true : [Names -> BOOLEAN]
    autoStart,       \* ModuleManager.autoStart
    recoveryEnabled, \* ModuleManager.recoveryOptions.enabled
    available,       \* the module objects that can be constructed (the
                     \* directories under modulesPath, the classes at hand)
    maxSnapshots,    \* ModuleMemoryInspector.options.maxSnapshots
    eventHandlers,   \* the names of the modules whose class defines onEvent
    thresholds,      \* ModuleMemoryInspector.options.thresholds, in MB/hour
    demandTracked,   \* the followed objects: the results of loadModuleOnDemand and recoverModule and the order of the passes are recorded for them
    \* ---- Module objects
    state,           \* Module._state : [Objs -> ModuleStates]
    lastError,       \* Module._error !== null : [Objs -> BOOLEAN]
    listeners,       \* number of "error" listeners the Manager installed
    calls,           \* bag of on* hooks in progress (awaited)
    illegal,         \* the stateChange events of the last step that the table
                     \* of legal transitions does not list: <<previous, new>>
    \* ---- ModuleManager
    modules,         \* the registry, a Map: its keys in insertion order
    initialized,     \* ModuleManager.initialized
    recoveryAttempts,\* Map name -> attempts (0 = no entry)
    timers,          \* pending setTimeout callbacks of attemptModuleRecovery
    attemptsBegun,   \* history: the recoveries (reset, initialize, start) the
                     \* timer callbacks began for a module since its last
                     \* successful recovery; counted up to MaxAttempts + 1
    scheduled,       \* history: the timers attemptModuleRecovery scheduled for the name since its counter was last deleted
    pass,            \* the pass (initialize/start/stop loop) in progress
    plugins,         \* ModuleManager.plugins: the plugins' names, in
                     \* registration order
    pluginCall,      \* the plugin hook the pass awaits, if any
    main,            \* main() of src/src/utils/logger.ts and its signal
                     \* handler: where main is, shuttingDown, the timer
                     \* shutdownTimeout, and the exit code of the process
    returned,        \* what loadModuleOnDemand returned for each followed object in the last step ("module", "existing", "undefined"), "pending" while it awaits, else "none"
    recoverReturned, \* what recoverModule returned for each followed name in the last step ("true", "false"), "pending" while it awaits, else "none"
    passOrder,       \* a history: the followed modules the start passes began to start since the last stop pass, the followed modules the stop pass began to stop, the registry when the first of them started
    moduleCache,     \* ModuleManager.moduleCache: key -> [timestamp, data], or NoEntry
    cacheCall,       \* the call of getCachedData or setCachedData of the last step
    configs,         \* ModuleConfig.configs: name -> configuration, or no entry
    configFiles,     \* the files {name}.json under configPath: their content, or "missing"
    configCall,      \* the call of a ModuleConfig method the last step made, and its result
    broadcast,       \* the call of broadcastEvent in progress, and the
                     \* receivers of the last call
    batch,           \* the call of loadModules: its directories, those
                     \* still loading, its three counters and its outcome
    thrown,          \* what the code run by the last step threw to its
                     \* caller ("none": it returned or went on to await)
    events,          \* the moduleError events the last step emitted:
                     \* how many per <<moduleName, operation>>
    \* ---- ModuleMemoryInspector
    inspectorRunning,\* intervalId !== null
    snapshots,       \* the snapshot ring per module name: a sequence of
                     \* [timestamp, heapUsed], oldest first
    analyses,        \* calls of analyzeMemory waiting for their timer
    \* ---- ModuleHealth
    startTimes,      \* the keys of ModuleHealth.startTimes: <<name, operation>>
    metrics,         \* ModuleHealth.metrics, per module name: count and
                     \* failures per operation, and errorCount
    \* ---- result of a direct call of sortModulesByDependencies
    sortResult,
    \* ---- direct calls of ModuleUpdater.compareVersions
    versions,        \* the version strings <<a, b, c>> it is called on, each a
                     \* sequence of components, each a sequence of digits
    compared,        \* the results, once the calls are made
    \* ---- result of a direct call of analyzeMemoryUsage
    leaks,           \* per module name: whether a result is reported for
                     \* it, with which severity and which growthRate
    \* ---- result of a direct call of generateMemoryReport
    report,          \* whether the call was made, and its moduleStats
    \* ---- the behaviour of the modules' hooks, when a run prescribes it
    fault,           \* [module, thrown]: the onStart of `module` throws on its
                     \* first call and on no other; thrown once it has
    \* ---- what the model follows
    healthTracked,   \* the module names whose health metrics are followed
                     \* (the metrics are write-only: nothing else reads them)
    \* ---- the environment
    now,             \* Date.now()
    heapUsed         \* process.memoryUsage().heapUsed

staticVars ==
    <<dependencies, priority, disabled, configDisabled, autoStart,
      recoveryEnabled, available, maxSnapshots, eventHandlers, thresholds,
      demandTracked>>

dynVars ==
    <<state, lastError, listeners, calls, illegal, modules, initialized,
      recoveryAttempts, timers, attemptsBegun, pass, plugins, pluginCall,
      batch, broadcast, main, returned, moduleCache, cacheCall, configs,
      configFiles, configCall, recoverReturned,
      passOrder,
      scheduled,
      thrown, events, inspectorRunning, snapshots,
      analyses, startTimes, metrics>>

envVars == <<now, heapUsed>>

pureVars == <<sortResult, versions, compared, leaks, report>>

vars == <<staticVars, dynVars, pureVars, fault, healthTracked, envVars>>

(***************************************************************************)
(* Sequences.                                                              *)
(***************************************************************************)
Range(s) == {s[i] : i \in DOMAIN s}

InSeq(x, s) == \E i \in DOMAIN s : s[i] = x

\* s without its elements equal to x
Without(s, x) == SelectSeq(s, LAMBDA y : y # x)

Reverse(s) == [i \in 1..Len(s) |-> s[Len(s) + 1 - i]]

\* index of the first occurrence of x in s, 0 when there is none
IndexOf(x, s) ==
    IF InSeq(x, s) THEN CHOOSE i \in DOMAIN s :
                            s[i] = x /\ \A j \in 1..(i - 1) : s[j] # x
    ELSE 0

\* the sequences without repetition over S of length at most n
InjSeqs(S, n) ==
    {s \in UNION {[1..k -> S] : k \in 0..n} :
        \A i, j \in DOMAIN s : i # j => s[i] # s[j]}

(***************************************************************************)
(* ModuleManager.sortModulesByDependencies                                 *)
(*                                                                         *)
(* reg is the registry (objects in insertion order), deps and prio the     *)
(* metadata by name.  The traversal state is                               *)
(*   [visited : set, visiting : sequence (a JS Set keeps insertion order), *)
(*    sorted : sequence of objects, err : the exception, <<>> when none].  *)
(***************************************************************************)
Registered(reg, name) == \E i \in DOMAIN reg : NameOf(reg[i]) = name

\* this.modules.get(name)
GetModule(reg, name) == reg[CHOOSE i \in DOMAIN reg : NameOf(reg[i]) = name]

\* Array.prototype.sort with (a, b) => (b.priority || 0) - (a.priority || 0):
\* a stable sort, highest priority first (insertion sort, same result)
RECURSIVE InsertByPriority(_, _, _)
InsertByPriority(prio, o, s) ==
    IF s = <<>> THEN <<o>>
    ELSE IF prio[NameOf(Head(s))] >= prio[NameOf(o)]
         THEN <<Head(s)>> \o InsertByPriority(prio, o, Tail(s))
         ELSE <<o>> \o s

RECURSIVE SortByPriority(_, _)
SortByPriority(prio, reg) ==
    IF reg = <<>> THEN <<>>
    ELSE InsertByPriority(prio, reg[Len(reg)],
                          SortByPriority(prio, SubSeq(reg, 1, Len(reg) - 1)))

RECURSIVE visit(_, _, _, _)
RECURSIVE visitDeps(_, _, _, _)

\* a visit that takes a module being visited for a visited one
visitWithoutCycleCheck(reg, deps, moduleName, st) ==
    IF st.err # <<>> THEN st
    ELSE IF moduleName \in st.visited \/ InSeq(moduleName, st.visiting) THEN st
    ELSE IF ~Registered(reg, moduleName)
         THEN [st EXCEPT !.err = <<"not found", moduleName>>]
    ELSE LET st1 == [st EXCEPT !.visiting = Append(@, moduleName)]
             st2 == visitDeps(reg, deps, deps[moduleName], st1)
         IN  IF st2.err # <<>> THEN st2
             ELSE [st2 EXCEPT
                     !.visiting = Without(@, moduleName),
                     !.visited = @ \cup {moduleName},
                     !.sorted = Append(@, GetModule(reg, moduleName))]

visit(reg, deps, moduleName, st) ==
    IF st.err # <<>> THEN st
    ELSE IF moduleName \in st.visited THEN st
    ELSE IF InSeq(moduleName, st.visiting)
         THEN [st EXCEPT !.err = <<"Circular dependency">> \o st.visiting
                                    \o <<moduleName>>]
    ELSE IF ~Registered(reg, moduleName)
         THEN [st EXCEPT !.err = <<"not found", moduleName>>]
    ELSE LET st1 == [st EXCEPT !.visiting = Append(@, moduleName)]
             st2 == visitDeps(reg, deps, deps[moduleName], st1)
         IN  IF st2.err # <<>> THEN st2
             ELSE [st2 EXCEPT
                     !.visiting = Without(@, moduleName),
                     !.visited = @ \cup {moduleName},
                     !.sorted = Append(@, GetModule(reg, moduleName))]

\* for (const depName of module.dependencies) if (modules.has(depName)) visit
visitDeps(reg, deps, depList, st) ==
    IF depList = <<>> \/ st.err # <<>> THEN st
    ELSE LET depName == Head(depList)
             st1 == IF Registered(reg, depName)
                    THEN visit(reg, deps, depName, st)
                    ELSE st
         IN  visitDeps(reg, deps, Tail(depList), st1)

RECURSIVE visitAll(_, _, _, _)
visitAll(reg, deps, byPriority, st) ==
    IF byPriority = <<>> \/ st.err # <<>> THEN st
    ELSE visitAll(reg, deps, Tail(byPriority),
                  IF NameOf(Head(byPriority)) \in st.visited THEN st
                  ELSE visit(reg, deps, NameOf(Head(byPriority)), st))

\* a scheduler that orders by priority alone
sortByPriorityOnly(reg, deps, prio) ==
    [ok |-> TRUE, sorted |-> SortByPriority(prio, reg), err |-> <<>>]

\* the result: [ok, sorted, err]; ok = FALSE when the function throws err
sortModulesByDependencies(reg, deps, prio) ==
    LET st == visitAll(reg, deps, SortByPriority(prio, reg),
                       [visited |-> {}, visiting |-> <<>>, sorted |-> <<>>,
                        err |-> <<>>])
    IN  [ok |-> st.err = <<>>, sorted |-> st.sorted, err |-> st.err]

(***************************************************************************)
(* Graph notions used to state the claims (not part of the program).       *)
(***************************************************************************)
RegNames(reg) == {NameOf(reg[i]) : i \in DOMAIN reg}

\* the edges of the dependency graph restricted to the registered modules
DepEdge(reg, deps, a, b) ==
    a \in RegNames(reg) /\ b \in RegNames(reg) /\ InSeq(b, deps[a])

\* the names among `names` reachable from the frontier by at least one edge
RECURSIVE ReachFrom(_, _, _, _)
ReachFrom(names, deps, frontier, seen) ==
    LET next == {b \in names : \E a \in frontier : InSeq(b, deps[a])} \ seen
    IN  IF next = {} THEN seen
        ELSE ReachFrom(names, deps, next, seen \cup next)

HasCycle(reg, deps) ==
    LET names == RegNames(reg)
    IN  \E a \in names : a \in ReachFrom(names, deps, {a}, {})

(***************************************************************************)
(* The mutable part of the program as one record, so that a piece of code  *)
(* is an operator from records to records.  World is the record a step     *)
(* starts from: the current state, nothing thrown, no event emitted and no *)
(* state changed yet.                                                      *)
(***************************************************************************)
Hooks == {"initialize", "start", "stop"}

\* the `operation` string that Module and the passes give to an error
Operation(hook) == IF hook = "initialize" THEN "initialization" ELSE hook

Operations == {Operation(h) : h \in Hooks}

NoEvents == [e \in Names \X Operations |-> 0]

\* the keys and the data of the cache
CacheKeys == {"k1", "k2"}

CacheData == {"d1", "d2"}

\* Map.get(key) of a key the map does not hold
NoEntry == [timestamp |-> 0, data |-> "undefined", present |-> FALSE]

\* `new Map()`
NoCache == [k \in CacheKeys |-> NoEntry]

NoCacheCall ==
    [op |-> "none", key |-> "none", maxAge |-> 0, data |-> "undefined",
     result |-> "undefined"]

\* the module names ModuleConfig is called with, and the configurations: a
\* configuration is the set of the settings it holds ({} is the empty object)
ConfigNames == {"m1", "m2"}

Settings == {"x", "y"}

ConfigData == SUBSET Settings

\* Map.get(name) of a name the map does not hold
NoConfig == [present |-> FALSE, data |-> {}]

\* `new Map()`
NoConfigs == [n \in ConfigNames |-> NoConfig]

\* a file {name}.json: there is none, or its content is not JSON, or it is
\* the JSON text of a configuration
MissingFile == [kind |-> "missing", data |-> {}]

InvalidFile == [kind |-> "invalid", data |-> {}]

JsonFile(config) == [kind |-> "json", data |-> config]

\* no file under configPath
NoConfigFiles == [n \in ConfigNames |-> MissingFile]

\* no call; a call returns a configuration (data) or a boolean (ok)
NoConfigCall == [op |-> "none", name |-> "none", data |-> {}, ok |-> TRUE]

\* the results of loadModuleOnDemand last one step; a pending call stays
Awaited(r) == [o \in Objs |-> IF r[o] = "pending" THEN "pending" ELSE "none"]

\* the results of recoverModule are read in the step that gives them; a call
\* that awaits stays pending
AwaitedRecovery(r) ==
    [n \in Names |-> IF r[n] = "pending" THEN "pending" ELSE "none"]

World ==
    [state |-> state, lastError |-> lastError, listeners |-> listeners,
     calls |-> calls, illegal |-> {}, modules |-> modules,
     initialized |-> initialized,
     recoveryAttempts |-> recoveryAttempts, timers |-> timers,
     attemptsBegun |-> attemptsBegun,
     pass |-> pass, plugins |-> plugins, pluginCall |-> pluginCall,
     batch |-> batch, broadcast |-> broadcast, main |-> main,
     returned |-> Awaited(returned),
     moduleCache |-> moduleCache,
     cacheCall |-> NoCacheCall,
     configs |-> configs,
     configFiles |-> configFiles,
     configCall |-> NoConfigCall,
     recoverReturned |-> AwaitedRecovery(recoverReturned),
     passOrder |-> passOrder,
     scheduled |-> scheduled,
     thrown |-> "none", events |-> NoEvents,
     inspectorRunning |-> inspectorRunning, snapshots |-> snapshots,
     analyses |-> analyses,
     startTimes |-> startTimes, metrics |-> metrics]

\* the step's result is computed once and assigned to the variables
ApplyDynamic(w) ==
    \E x \in {w} :
        /\ state' = x.state
        /\ lastError' = x.lastError
        /\ listeners' = x.listeners
        /\ calls' = x.calls
        /\ illegal' = x.illegal
        /\ modules' = x.modules
        /\ initialized' = x.initialized
        /\ recoveryAttempts' = x.recoveryAttempts
        /\ timers' = x.timers
        /\ attemptsBegun' = x.attemptsBegun
        /\ pass' = x.pass
        /\ plugins' = x.plugins
        /\ pluginCall' = x.pluginCall
        /\ batch' = x.batch
        /\ broadcast' = x.broadcast
        /\ main' = x.main
        /\ returned' = x.returned
        /\ moduleCache' = x.moduleCache
        /\ cacheCall' = x.cacheCall
        /\ configs' = x.configs
        /\ configFiles' = x.configFiles
        /\ configCall' = x.configCall
        /\ recoverReturned' = x.recoverReturned
        /\ passOrder' = x.passOrder
        /\ scheduled' = x.scheduled
        /\ thrown' = x.thrown
        /\ events' = x.events
        /\ inspectorRunning' = x.inspectorRunning
        /\ snapshots' = x.snapshots
        /\ analyses' = x.analyses
        /\ startTimes' = x.startTimes
        /\ metrics' = x.metrics

Apply(w) ==
    /\ ApplyDynamic(w)
    /\ UNCHANGED <<staticVars, pureVars, fault, healthTracked, envVars>>

\* how the code that awaits a module operation goes on when it is over:
\*   "none"         nothing more (a direct call; the last step of restart
\*                  and of createModule)
\*   "thenStart"    `await module.start()` follows (restart after stop,
\*                  createModule after initialize)
\*   "demand"       loadModuleOnDemand: nothing more, inside its try block
\*   "demandStart"  loadModuleOnDemand: start follows, inside its try block
\*   "recoverInit"  recovery: start, then recoveryAttempts.delete follow
\*   "recoverStart" recovery: recoveryAttempts.delete follows
\*   "pass"         the loop of initializeModules/startModules/stopModules
Continuations ==
    {"none", "thenStart", "demand", "demandStart", "recoverInit",
     "recoverStart", "pass"}

Call(o, hook, cont) == [obj |-> o, hook |-> hook, cont |-> cont]

NoPass ==
    [kind |-> "none", queue |-> <<>>, running |-> {}, hooks |-> <<>>,
     operated |-> FALSE]

\* loadModules has not been called
NoBatch ==
    [dirs |-> {}, pending |-> {}, loadedCount |-> 0, disabledCount |-> 0,
     errorCount |-> 0, outcome |-> "none", validated |-> FALSE]

\* broadcastEvent has not been called.  position is the index in the
\* registry of the module the loop is at; awaiting tells whether the loop
\* awaits that module's onEvent.  Histories of the last call: received, the
\* modules whose onEvent was called, in the order of the calls; failed, those
\* whose onEvent threw.
NoBroadcast ==
    [active |-> FALSE, source |-> "none", position |-> 0, awaiting |-> FALSE,
     received |-> <<>>, failed |-> {}]

\* the Manager is not run by main().  phase is where main() and its signal
\* handler are: "loading" (loadModules), "initializing" (main awaits
\* initializeModules), "serving" (the handlers are installed), "leaks" (the
\* handler awaits the leak check), "stopping" (it awaits stopModules),
\* "exited".  exit holds the code process.exit was called with.
\* stopModulesCalls is a history: the calls of stopModules.
NoMain ==
    [phase |-> "none", shuttingDown |-> FALSE, shutdownTimeout |-> FALSE,
     checkLeaksOnShutdown |-> FALSE, exit |-> {}, stopModulesCalls |-> 0]

\* no pass has started or stopped a module
NoOrder == [start |-> <<>>, stop |-> <<>>, registry |-> <<>>]

\* no plugin hook is awaited
NoPluginCall == [phase |-> "none", index |-> 0, module |-> "none"]

(***************************************************************************)
(* Module (src/src/core/Module.ts)                                         *)
(***************************************************************************)
\* guards under which start() does not refuse a module that is STARTING
AcceptsWhileStarting(hook, s) ==
    CASE hook = "initialize" -> s = "UNINITIALIZED"
      [] hook = "start" -> s \in {"INITIALIZED", "STOPPED", "STARTING"}
      [] hook = "stop" -> s = "RUNNING"

\* guards under which initialize() runs again on an initialized module
AcceptsInitialized(hook, s) ==
    CASE hook = "initialize" -> s \in {"UNINITIALIZED", "INITIALIZED"}
      [] hook = "start" -> s \in {"INITIALIZED", "STOPPED"}
      [] hook = "stop" -> s = "RUNNING"

\* the guards of initialize(), start() and stop()
Accepts(hook, s) ==
    CASE hook = "initialize" -> s = "UNINITIALIZED"
      [] hook = "start" -> s \in {"INITIALIZED", "STOPPED"}
      [] hook = "stop" -> s = "RUNNING"

\* the state each operation sets before it awaits its hook
TransientState(hook) ==
    CASE hook = "initialize" -> "INITIALIZING"
      [] hook = "start" -> "STARTING"
      [] hook = "stop" -> "STOPPING"

\* a stop() that leaves the module in STOPPING when onStop has returned
SuccessStateStopPending(hook) ==
    CASE hook = "initialize" -> "INITIALIZED"
      [] hook = "start" -> "RUNNING"
      [] hook = "stop" -> "STOPPING"

\* the state each operation sets when its hook has returned
SuccessState(hook) ==
    CASE hook = "initialize" -> "INITIALIZED"
      [] hook = "start" -> "RUNNING"
      [] hook = "stop" -> "STOPPED"

\* the table of legal transitions (spec.md, section 3)
LegalTransitions ==
    {<<"UNINITIALIZED", "INITIALIZING">>,
     <<"INITIALIZING", "INITIALIZED">>, <<"INITIALIZING", "ERROR">>,
     <<"INITIALIZED", "STARTING">>,
     <<"STARTING", "RUNNING">>, <<"STARTING", "ERROR">>,
     <<"RUNNING", "STOPPING">>,
     <<"STOPPING", "STOPPED">>, <<"STOPPING", "ERROR">>,
     <<"STOPPED", "STARTING">>,
     <<"ERROR", "UNINITIALIZED">>}

\* Module.setState: assigns, with no check of the transition, and emits
\* stateChange(state, previousState) when the state changed
setState(w, o, s) ==
    LET previousState == w.state[o]
    IN  [w EXCEPT !.state[o] = s,
                  !.illegal = IF previousState # s
                                 /\ <<previousState, s>> \notin LegalTransitions
                              THEN @ \cup {<<previousState, s>>}
                              ELSE @]

\* Module.initialize / start / stop from the call to `await this.on...()`:
\* refused (a warning, a normal return) when the guard fails
beginOperation(w, o, hook, cont) ==
    IF ~Accepts(hook, w.state[o]) THEN w
    ELSE [setState(w, o, TransientState(hook)) EXCEPT
            !.calls = @ (+) SetToBag({Call(o, hook, cont)})]

\* a reset that keeps the recorded error
resetKeepingError(w, o) == setState(w, o, "UNINITIALIZED")

\* Module.reset
reset(w, o) == setState([w EXCEPT !.lastError[o] = FALSE], o, "UNINITIALIZED")

\* Module.hasError
hasError(w, o) == w.state[o] = "ERROR" \/ w.lastError[o]

(***************************************************************************)
(* ModuleHealth (src/src/core/ModuleHealth.ts): the counters of the        *)
(* metrics; the durations are left out.                                    *)
(***************************************************************************)
\* getOrCreateMetrics: the metrics of a module that has none yet
NoMetrics ==
    [count |-> [h \in Hooks |-> 0], failures |-> [h \in Hooks |-> 0],
     errorCount |-> 0]

\* count++, failures++, errorCount++
Incremented(n) == IF n < MaxCalls THEN n + 1 ELSE n

\* trackStart
trackStart(w, o, operation) ==
    IF NameOf(o) \notin healthTracked THEN w
    ELSE [w EXCEPT !.startTimes = @ \cup {<<NameOf(o), operation>>}]

\* a trackEnd that does not look for the start time
trackEndUnpaired(w, o, operation, success) ==
    IF NameOf(o) \notin healthTracked THEN w
    ELSE [w EXCEPT
            !.startTimes = @ \ {<<NameOf(o), operation>>},
            !.metrics[NameOf(o)] =
                [count |-> [@.count EXCEPT ![operation] = Incremented(@)],
                 failures |-> IF success THEN @.failures
                              ELSE [@.failures EXCEPT
                                      ![operation] = Incremented(@)],
                 errorCount |-> IF success THEN @.errorCount
                                ELSE Incremented(@.errorCount)]]

\* trackEnd
trackEnd(w, o, operation, success) ==
    IF NameOf(o) \notin healthTracked THEN w
    ELSE IF <<NameOf(o), operation>> \notin w.startTimes THEN w
    ELSE [w EXCEPT
            !.startTimes = @ \ {<<NameOf(o), operation>>},
            !.metrics[NameOf(o)] =
                [count |-> [@.count EXCEPT ![operation] = Incremented(@)],
                 failures |-> IF success THEN @.failures
                              ELSE [@.failures EXCEPT
                                      ![operation] = Incremented(@)],
                 errorCount |-> IF success THEN @.errorCount
                                ELSE Incremented(@.errorCount)]]

\* trackError
trackError(w, o) ==
    IF NameOf(o) \notin healthTracked THEN w
    ELSE [w EXCEPT !.metrics[NameOf(o)].errorCount = Incremented(@)]

(***************************************************************************)
(* ModuleUpdater.compareVersions (src/src/core/ModuleUpdater.ts).  A       *)
(* version string is the sequence of the components that split(".")        *)
(* returns, and a component the sequence of its decimal digits.            *)
(***************************************************************************)
\* a conversion that reads the first digit only
NumberOfFirstDigit(component) ==
    IF component = <<>> THEN 0 ELSE component[1]

\* Number(component) of a string of decimal digits
RECURSIVE Number(_)
Number(component) ==
    IF component = <<>> THEN 0
    ELSE 10 * Number(SubSeq(component, 1, Len(component) - 1))
         + component[Len(component)]

\* v.split(".").map(Number)
Parts(v) == [i \in DOMAIN v |-> Number(v[i])]

Max(a, b) == IF a >= b THEN a ELSE b

\* the for loop of compareVersions from index i (1-based here) on
RECURSIVE compareFrom(_, _, _, _)
compareFrom(parts1, parts2, i, length) ==
    IF i > length THEN 0
    ELSE LET part1 == IF i <= Len(parts1) THEN parts1[i] ELSE 0
             part2 == IF i <= Len(parts2) THEN parts2[i] ELSE 0
         IN  IF part1 > part2 THEN 1
             ELSE IF part1 < part2 THEN -1
             ELSE compareFrom(parts1, parts2, i + 1, length)

\* a comparison whose loop stops at the end of the first version
compareVersionsOverFirst(v1, v2) ==
    compareFrom(Parts(v1), Parts(v2), 1, Len(v1))

\* compareVersions
compareVersions(v1, v2) ==
    compareFrom(Parts(v1), Parts(v2), 1, Max(Len(v1), Len(v2)))

(***************************************************************************)
(* ModuleManager: the moduleError event and the recovery supervisor        *)
(***************************************************************************)
\* setTimeout(callback, delayMs) in attemptModuleRecovery
setTimeout(w, moduleName) ==
    [w EXCEPT !.timers[moduleName] = @ + 1,
              !.scheduled[moduleName] = IF @ <= MaxAttempts THEN @ + 1 ELSE @]

\* an attemptModuleRecovery that does not look at the limit
attemptModuleRecoveryUnlimited(w, moduleName) ==
    LET attempts == w.recoveryAttempts[moduleName]
    IN  setTimeout([w EXCEPT !.recoveryAttempts[moduleName] =
                                 IF attempts <= MaxAttempts
                                 THEN attempts + 1 ELSE attempts],
                   moduleName)

\* attemptModuleRecovery up to setTimeout
attemptModuleRecovery(w, moduleName) ==
    LET attempts == w.recoveryAttempts[moduleName]
    IN  IF attempts >= MaxAttempts THEN w
        ELSE setTimeout([w EXCEPT !.recoveryAttempts[moduleName] = attempts + 1],
                        moduleName)

\* a listener that does not look at the operation
emitModuleErrorAnyOperation(w, moduleName, operation) ==
    LET w1 == [w EXCEPT !.events[<<moduleName, operation>>] =
                            IF @ < MaxEvents THEN @ + 1 ELSE @]
    IN  IF recoveryEnabled
        THEN attemptModuleRecovery(w1, moduleName)
        ELSE w1

\* this.emit("moduleError", error, moduleName, operation) and the listener
\* the constructor installed for it
emitModuleError(w, moduleName, operation) ==
    LET w1 == [w EXCEPT !.events[<<moduleName, operation>>] =
                            IF @ < MaxEvents THEN @ + 1 ELSE @]
    IN  IF recoveryEnabled /\ operation # "initialization"
        THEN attemptModuleRecovery(w1, moduleName)
        ELSE w1

\* the "error" listeners registerModule installed on the module, n of them
RECURSIVE moduleErrorListeners(_, _, _, _)
moduleErrorListeners(w, o, operation, n) ==
    IF n = 0 THEN w
    ELSE moduleErrorListeners(
             emitModuleError(trackError(w, o), NameOf(o), operation),
             o, operation, n - 1)

\* a handleError that emits no error signal
handleErrorSilent(w, o, operation) ==
    setState([w EXCEPT !.lastError[o] = TRUE], o, "ERROR")

\* Module.handleError
handleError(w, o, operation) ==
    LET w1 == setState([w EXCEPT !.lastError[o] = TRUE], o, "ERROR")
    IN  moduleErrorListeners(w1, o, operation, w1.listeners[o])

(***************************************************************************)
(* ModuleManager: the TTL cache                                            *)
(***************************************************************************)
\* a getCachedData that returns undefined for an expired entry and keeps it
getCachedDataKeeping(w, key, maxAge) ==
    LET cached == w.moduleCache[key]
        call == [op |-> "get", key |-> key, maxAge |-> maxAge,
                 data |-> "undefined", result |-> "undefined"]
    IN  IF ~cached.present THEN [w EXCEPT !.cacheCall = call]
        ELSE IF now - cached.timestamp > maxAge
             THEN [w EXCEPT !.cacheCall = call]
        ELSE [w EXCEPT !.cacheCall = [call EXCEPT !.result = cached.data]]

\* getCachedData
getCachedData(w, key, maxAge) ==
    LET cached == w.moduleCache[key]
        call == [op |-> "get", key |-> key, maxAge |-> maxAge,
                 data |-> "undefined", result |-> "undefined"]
    IN  IF ~cached.present THEN [w EXCEPT !.cacheCall = call]
        ELSE IF now - cached.timestamp > maxAge
             THEN [w EXCEPT !.moduleCache[key] = NoEntry, !.cacheCall = call]
        ELSE [w EXCEPT !.cacheCall = [call EXCEPT !.result = cached.data]]

\* setCachedData
setCachedData(w, key, data) ==
    [w EXCEPT !.moduleCache[key] =
                  [timestamp |-> now, data |-> data, present |-> TRUE],
              !.cacheCall = [op |-> "set", key |-> key, maxAge |-> 0,
                             data |-> data, result |-> "undefined"]]

(***************************************************************************)
(* ModuleConfig (src/src/core/ModuleUpdater.ts).  A file is "missing",     *)
(* "invalid" (its content is not JSON) or holds a configuration;           *)
(* JSON.stringify and JSON.parse take a configuration to the file's        *)
(* content and back.  Each method runs in one step.                        *)
(***************************************************************************)
ConfigCall(op, name, data, ok) ==
    [op |-> op, name |-> name, data |-> data, ok |-> ok]

Entry(data) == [present |-> TRUE, data |-> data]

\* loadConfig: readFile and JSON.parse; when either throws, the catch block
\* sets the empty configuration
loadConfig(w, moduleName) ==
    LET fileContent == w.configFiles[moduleName]
        config == IF fileContent.kind = "json" THEN fileContent.data
                  ELSE {}
    IN  [w EXCEPT !.configs[moduleName] = Entry(config),
                  !.configCall = ConfigCall("load", moduleName, config, TRUE)]

\* saveConfig: writeFile, then configs.set
saveConfig(w, moduleName, config) ==
    [w EXCEPT !.configFiles[moduleName] = JsonFile(config),
              !.configs[moduleName] = Entry(config),
              !.configCall = ConfigCall("save", moduleName, {}, TRUE)]

\* getConfig: `this.configs.get(moduleName) || {}`
getConfig(w, moduleName) ==
    IF w.configs[moduleName].present THEN w.configs[moduleName].data ELSE {}

\* hasConfig
hasConfig(w, moduleName) == w.configs[moduleName].present

\* updateConfig: `{ ...currentConfig, ...updates }`, then saveConfig
updateConfig(w, moduleName, updates) ==
    LET newConfig == getConfig(w, moduleName) \cup updates
    IN  [saveConfig(w, moduleName, newConfig) EXCEPT
            !.configCall = ConfigCall("update", moduleName, newConfig, TRUE)]

\* deleteConfig: unlink, then configs.delete; unlink throws ENOENT when the
\* file is missing, and the catch block returns false
deleteConfig(w, moduleName) ==
    IF w.configFiles[moduleName].kind = "missing"
    THEN [w EXCEPT !.configCall = ConfigCall("delete", moduleName, {}, FALSE)]
    ELSE [w EXCEPT !.configFiles[moduleName] = MissingFile,
                   !.configs[moduleName] = NoConfig,
                   !.configCall = ConfigCall("delete", moduleName, {}, TRUE)]

(***************************************************************************)
(* ModuleMemoryInspector                                                   *)
(***************************************************************************)
\* the snapshot takeSnapshot creates (timestamp and heapUsed of it)
Snapshot == [timestamp |-> now, heapUsed |-> heapUsed]

\* push, then pop when the ring is longer than maxSnapshots
PushedKeepingOldest(ring, snapshot) ==
    LET moduleSnapshots == Append(ring, snapshot)
    IN  IF Len(moduleSnapshots) > maxSnapshots THEN ring
        ELSE moduleSnapshots

\* push, then shift when the ring is longer than maxSnapshots
Pushed(ring, snapshot) ==
    LET moduleSnapshots == Append(ring, snapshot)
    IN  IF Len(moduleSnapshots) > maxSnapshots THEN Tail(moduleSnapshots)
        ELSE moduleSnapshots

\* takeSnapshot: one more snapshot on the ring of every module of
\* getAllModules() that is not disabled
takeSnapshot(w) ==
    [w EXCEPT !.snapshots =
        [n \in Names |->
            IF Registered(w.modules, n) /\ ~disabled[n]
            THEN Pushed(@[n], Snapshot)
            ELSE @[n]]]

\* clearSnapshots
clearSnapshots(w) == [w EXCEPT !.snapshots = [n \in Names |-> <<>>]]

\* ModuleMemoryInspector.start
inspectorStart(w) ==
    IF w.inspectorRunning THEN w
    ELSE [takeSnapshot(w) EXCEPT !.inspectorRunning = TRUE]

\* ModuleMemoryInspector.stop
inspectorStop(w) == [w EXCEPT !.inspectorRunning = FALSE]

\* ModuleManager.analyzeMemory up to `await new Promise(... setTimeout ...)`
analyzeMemory(w) ==
    [takeSnapshot(inspectorStart(w)) EXCEPT !.analyses = @ + 1]

\* ModuleManager.analyzeMemory from its timer on: takeSnapshot (and
\* analyzeMemoryUsage and generateMemoryReport, which change nothing)
analyzeMemoryResumed(w) == [takeSnapshot(w) EXCEPT !.analyses = @ - 1]

\* options.thresholds: `{ low: 5, medium: 20, high: 50 }` by default
DefaultThresholds == [low |-> 5, medium |-> 20, high |-> 50]

\* a quotient of two numbers, kept as the pair of them (den > 0)
Quotient(num, den) == [num |-> num, den |-> den]

\* quotient < 0.01
LessThanHundredth(quotient) == quotient.num * 100 < quotient.den

\* quotient > threshold: a severity chain that misses the rates equal to a
\* threshold
Exceeds(quotient, threshold) == quotient.num > threshold * quotient.den

\* quotient >= threshold
AtLeast(quotient, threshold) == quotient.num >= threshold * quotient.den

\* no result for a module
NoLeak == [reported |-> FALSE, severity |-> "none",
           growthRate |-> Quotient(0, 1)]

\* analyzeMemoryUsage is not called
NotAnalyzed == [n \in Names |-> NoLeak]

\* the body of the loop of analyzeMemoryUsage for one ring: the ring is
\* skipped when it has fewer than two snapshots or when its oldest and
\* newest snapshots are less than 0.01 hour apart; the growth is in MB
\* (bytes / 1024 / 1024: the heap sizes of the model are whole numbers of
\* MB), the elapsed time in hours (milliseconds / 1000 / 60 / 60), the rate
\* their quotient; the severity is the first threshold of high, medium, low
\* the rate reaches, and a ring whose rate reaches none is skipped
analyzeRing(moduleSnapshots) ==
    IF Len(moduleSnapshots) < 2 THEN NoLeak
    ELSE LET oldest == moduleSnapshots[1]
             newest == moduleSnapshots[Len(moduleSnapshots)]
             timeElapsedHours ==
                 Quotient(newest.timestamp - oldest.timestamp,
                          1000 * 60 * 60)
             heapGrowthMB ==
                 ((newest.heapUsed - oldest.heapUsed) \div 1024) \div 1024
             growthRateMBPerHour ==
                 Quotient(heapGrowthMB * timeElapsedHours.den,
                          timeElapsedHours.num)
             severity ==
                 IF AtLeast(growthRateMBPerHour, thresholds.high)
                 THEN "high"
                 ELSE IF AtLeast(growthRateMBPerHour, thresholds.medium)
                 THEN "medium"
                 ELSE IF AtLeast(growthRateMBPerHour, thresholds.low)
                 THEN "low"
                 ELSE "none"
         IN  IF LessThanHundredth(timeElapsedHours) THEN NoLeak
             ELSE IF severity = "none" THEN NoLeak
             ELSE [reported |-> TRUE, severity |-> severity,
                   growthRate |-> growthRateMBPerHour]

\* analyzeMemoryUsage: one result at most per ring of the snapshots map
analyzeMemoryUsage(rings) == [n \in Names |-> analyzeRing(rings[n])]

\* generateMemoryReport is not called
NotReported == [done |-> FALSE, moduleStats |-> <<>>]

RECURSIVE GCD(_, _)
GCD(a, b) == IF b = 0 THEN a ELSE GCD(b, a % b)

\* the quotient in lowest terms (den > 0)
Reduced(quotient) ==
    LET g == GCD(IF quotient.num < 0 THEN -quotient.num ELSE quotient.num,
                 quotient.den)
    IN  Quotient(quotient.num \div g, quotient.den \div g)

\* b.growthRate - a.growthRate <= 0 for the rates a and b
NotBelow(a, b) ==
    Reduced(a).num * Reduced(b).den >= Reduced(b).num * Reduced(a).den

\* the body of the loop of generateMemoryReport for one ring: the ring is
\* skipped on the two conditions of analyzeMemoryUsage; heapGrowth is in MB,
\* growthRate in MB per hour, and leakProbability is the first threshold of
\* high, medium, low the rate reaches, "none" when it reaches none
reportRing(moduleName, moduleSnapshots) ==
    LET oldestSnapshot == moduleSnapshots[1]
        newestSnapshot == moduleSnapshots[Len(moduleSnapshots)]
        timeElapsedHours ==
            Quotient(newestSnapshot.timestamp - oldestSnapshot.timestamp,
                     1000 * 60 * 60)
        heapGrowth ==
            ((newestSnapshot.heapUsed - oldestSnapshot.heapUsed) \div 1024)
                \div 1024
        growthRate ==
            Quotient(heapGrowth * timeElapsedHours.den, timeElapsedHours.num)
        leakProbability ==
            IF AtLeast(growthRate, thresholds.high) THEN "high"
            ELSE IF AtLeast(growthRate, thresholds.medium) THEN "medium"
            ELSE IF AtLeast(growthRate, thresholds.low) THEN "low"
            ELSE "none"
    IN  [moduleName |-> moduleName, heapGrowth |-> heapGrowth,
         growthRate |-> growthRate, leakProbability |-> leakProbability]

\* `continue` in the loop of generateMemoryReport
ReportSkips(moduleSnapshots) ==
    IF Len(moduleSnapshots) < 2 THEN TRUE
    ELSE LessThanHundredth(
             Quotient(moduleSnapshots[Len(moduleSnapshots)].timestamp
                          - moduleSnapshots[1].timestamp,
                      1000 * 60 * 60))

\* the loop of generateMemoryReport over the keys of the snapshots map
RECURSIVE reportLoop(_, _)
reportLoop(rings, keys) ==
    IF keys = <<>> THEN <<>>
    ELSE LET rest == reportLoop(rings, Tail(keys))
         IN  IF ReportSkips(rings[Head(keys)]) THEN rest
             ELSE <<reportRing(Head(keys), rings[Head(keys)])>> \o rest

\* a sort that leaves the list in the order of the map
Unsorted(stats) == stats

\* moduleStats.sort((a, b) => b.growthRate - a.growthRate): a stable sort,
\* here by insertion of each element behind those that are not below it
RECURSIVE SortedByGrowthRate(_)
SortedByGrowthRate(stats) ==
    IF stats = <<>> THEN <<>>
    ELSE LET front == SortedByGrowthRate(SubSeq(stats, 1, Len(stats) - 1))
             last == stats[Len(stats)]
             kept == {i \in DOMAIN front :
                         NotBelow(front[i].growthRate, last.growthRate)}
             k == Cardinality(kept)
         IN  SubSeq(front, 1, k) \o <<last>> \o SubSeq(front, k + 1, Len(front))

\* generateMemoryReport: its moduleStats.  keys is the order of the keys of
\* the snapshots map
generateMemoryReport(rings, keys) ==
    SortedByGrowthRate(reportLoop(rings, keys))

(***************************************************************************)
(* ModuleManager: registration                                             *)
(***************************************************************************)
\* a registerModule that lets Map.set replace the module of the same name
registerModuleReplacing(w, o) ==
    IF disabled[NameOf(o)] THEN w
    ELSE [w EXCEPT
            !.listeners[o] = @ + 1,
            !.modules = IF Registered(@, NameOf(o))
                        THEN [i \in DOMAIN @ |->
                                IF NameOf(@[i]) = NameOf(o) THEN o ELSE @[i]]
                        ELSE Append(@, o)]

\* registerModule
registerModule(w, o) ==
    IF Registered(w.modules, NameOf(o))
    THEN [w EXCEPT !.thrown = "already registered"]
    ELSE IF disabled[NameOf(o)] THEN w
    ELSE [w EXCEPT !.listeners[o] = @ + 1, !.modules = Append(@, o)]

\* loadModuleFromPath: `module.disabled || moduleConfig.disabled === true`
IsDisabled(name) == disabled[name] \/ configDisabled[name]

\* loadModuleFromPath, from `new ModuleClass()` on: "disabled", or
\* registerModule and "loaded" (or what registerModule throws)
loadModuleFromPath(w, o) ==
    IF IsDisabled(NameOf(o)) THEN w ELSE registerModule(w, o)

(***************************************************************************)
(* ModuleManager.broadcastEvent.  The loop iterates this.modules.values(), *)
(* a live iterator of the Map: the registry from index i on.               *)
(***************************************************************************)
RECURSIVE broadcastFrom(_, _)
broadcastFrom(w, i) ==
    IF i > Len(w.modules)
    THEN [w EXCEPT !.broadcast.active = FALSE, !.broadcast.position = i]
    ELSE LET module == w.modules[i]
         IN  IF NameOf(module) = w.broadcast.source
                \/ w.state[module] # "RUNNING"
                \/ NameOf(module) \notin eventHandlers
             THEN broadcastFrom(w, i + 1)
             ELSE [w EXCEPT !.broadcast.position = i,
                            !.broadcast.awaiting = TRUE,
                            !.broadcast.received = Append(@, module)]

\* broadcastEvent(eventName, data, sourceModule)
broadcastEvent(w, sourceModule) ==
    broadcastFrom([w EXCEPT !.broadcast = [NoBroadcast EXCEPT
                                             !.active = TRUE,
                                             !.source = sourceModule]], 1)

\* the awaited onEvent returns
onEventReturned(w) ==
    broadcastFrom([w EXCEPT !.broadcast.awaiting = FALSE],
                  w.broadcast.position + 1)

\* a broadcastEvent without its try/catch
onEventThrewUncaught(w) ==
    [w EXCEPT !.broadcast.awaiting = FALSE, !.broadcast.active = FALSE,
              !.broadcast.failed = @ \cup {w.modules[w.broadcast.position]},
              !.thrown = "hook error"]

\* the awaited onEvent throws: the catch block logs the error
onEventThrew(w) ==
    broadcastFrom([w EXCEPT
                     !.broadcast.awaiting = FALSE,
                     !.broadcast.failed =
                         @ \cup {w.modules[w.broadcast.position]}],
                  w.broadcast.position + 1)

\* a directory of modulesPath whose module.js is missing, cannot be
\* imported, or has a default export that is not a subclass of Module
BadDirs == {"X"}

\* loadModules up to `await Promise.all(...)`: one loadModuleFromPath is
\* begun per directory
loadModules(w, dirs) ==
    [w EXCEPT !.batch = [NoBatch EXCEPT !.dirs = dirs, !.pending = dirs,
                                        !.outcome = "pending"]]

\* loadModules, the callback of one directory from `await loadPromise` on,
\* and what follows Promise.all.  Promise.all rejects with the first
\* rejection (the catch block of loadModules rethrows it) and is fulfilled
\* when every callback has returned: the tally is logged, validateDependencies
\* is called and loadModules returns.
directoryLoaded(w, dir) ==
    LET w1 == IF dir \in BadDirs THEN [w EXCEPT !.thrown = "load error"]
              ELSE loadModuleFromPath(w, dir)
        failed == w1.thrown # "none"
        w2 == [w1 EXCEPT
                 !.thrown = "none",
                 !.batch.pending = @ \ {dir},
                 !.batch.errorCount = IF failed THEN @ + 1 ELSE @,
                 !.batch.disabledCount =
                     IF ~failed /\ IsDisabled(NameOf(dir)) THEN @ + 1 ELSE @,
                 !.batch.loadedCount =
                     IF ~failed /\ ~IsDisabled(NameOf(dir)) THEN @ + 1 ELSE @]
    IN  IF w2.batch.outcome # "pending" THEN w2
        ELSE IF failed
             THEN [w2 EXCEPT !.batch.outcome = "threw", !.thrown = "load error"]
        ELSE IF w2.batch.pending = {}
             THEN [w2 EXCEPT !.batch.outcome = "returned",
                             !.batch.validated = TRUE]
        ELSE w2

(***************************************************************************)
(* ModuleManager: the three passes                                         *)
(*                                                                         *)
(* pass = [kind, queue, running, hooks, operated]: the loop of the pass of *)
(* that kind is at a module, and queue holds the modules that follow it in *)
(* the sorted array.  The loop awaits either a plugin hook (pluginCall) or *)
(* the module's operation (an element of calls).  The other fields are     *)
(* histories: running, kept for stopModules, holds the modules that were   *)
(* RUNNING when it was called; hooks lists the plugin hooks <<phase,       *)
(* plugin>> that have returned or thrown for the module the loop is at,    *)
(* and operated tells whether the loop has called that module's operation. *)
(*                                                                         *)
(* The onError hooks that handleManagerError calls without awaiting them   *)
(* (a rejection is caught and logged) have no effect on this state.        *)
(***************************************************************************)
\* process.exit(code); the handler clears shutdownTimeout before it calls it
exit(w, code) ==
    [w EXCEPT !.main.phase = "exited", !.main.shutdownTimeout = FALSE,
              !.main.exit = {code}]

\* `await moduleManager.initializeModules()` of main and `await
\* moduleManager.stopModules()` of its signal handler, when the pass returns:
\* main installs the handlers; the handler exits with code 0
passReturned(w) ==
    CASE w.main.phase = "initializing" -> [w EXCEPT !.main.phase = "serving"]
      [] w.main.phase = "stopping" -> exit(w, 0)
      [] OTHER -> w

\* the same, when the pass throws: the catch block of main and the catch
\* block of the handler exit with code 1
passRejected(w) ==
    IF w.main.phase \in {"initializing", "stopping"} THEN exit(w, 1) ELSE w

RECURSIVE runPass(_, _, _)
RECURSIVE endPass(_, _)
RECURSIVE startModules(_)
RECURSIVE pluginHooks(_, _, _, _)

\* the test at the head of the loop's body: `continue`
Skips(kind, s) ==
    CASE kind = "initialize" -> s = "INITIALIZED"
      [] kind = "start" -> s \notin {"INITIALIZED", "STOPPED"}
      [] kind = "stop" -> s # "RUNNING"

\* the for loop of a pass from the module at the head of queue on, up to the
\* next awaited hook: the before-hooks of the plugins come first
runPass(w, kind, queue) ==
    IF queue = <<>> THEN endPass(w, kind)
    ELSE LET module == Head(queue)
             w1 == [w EXCEPT !.pass = [@ EXCEPT !.kind = kind,
                                                !.queue = Tail(queue),
                                                !.hooks = <<>>,
                                                !.operated = FALSE]]
         IN  IF Skips(kind, w1.state[module])
             THEN runPass(w1, kind, Tail(queue))
             ELSE pluginHooks(w1, "before", module, 1)

\* a loop without its try/catch: the failure of a module ends the pass
passWithoutCatch(w, module) ==
    [w EXCEPT !.pass = NoPass, !.thrown = "hook error"]

\* the catch block of a pass's loop: moduleError (name, operation), then the
\* onError hooks of the plugins, and the loop goes on with the next module
passCatch(w, module) ==
    pluginHooks(emitModuleError(w, NameOf(module), Operation(w.pass.kind)),
                "onError", module, 1)

\* `await module.initialize()` (start, stop) has returned: trackEnd, then the
\* after-hooks of the plugins
operated(w, module) ==
    pluginHooks(trackEnd(w, module, w.pass.kind,
                         w.state[module] = SuccessState(w.pass.kind)),
                "after", module, 1)

\* the history of the passes: a start pass or a stop pass calls the
\* operation of a followed module, which accepts it
ordered(w, module, kind) ==
    IF module \notin demandTracked \/ kind = "initialize" THEN w
    ELSE IF kind = "stop"
         THEN [w EXCEPT !.passOrder.stop = Append(@, NameOf(module))]
         ELSE IF w.passOrder.stop # <<>> \/ w.passOrder.start = <<>>
              THEN [w EXCEPT !.passOrder = [start |-> <<NameOf(module)>>,
                                           stop |-> <<>>,
                                           registry |-> w.modules]]
              ELSE [w EXCEPT !.passOrder.start = Append(@, NameOf(module))]

\* trackStart and `await module.initialize()` (start, stop): the operation
\* awaits its hook, or is refused and returns at once
operate(w, module) ==
    LET kind == w.pass.kind
        w1 == trackStart([w EXCEPT !.pass.operated = TRUE], module, kind)
    IN  IF Accepts(kind, w1.state[module])
        THEN beginOperation(ordered(w1, module, kind), module, kind, "pass")
        ELSE operated(w1, module)

\* what follows the after-hooks: startModules throws "failed to start
\* properly" for a module that is not RUNNING
afterHooks(w, module) ==
    IF w.pass.kind = "start" /\ w.state[module] # "RUNNING"
    THEN passCatch(w, module)
    ELSE runPass(w, w.pass.kind, w.pass.queue)

\* `for (const plugin of this.plugins) await plugin.hooks.<hook>(...)` from
\* the plugin of index i on (1-based here), and what follows the loop
pluginHooks(w, phase, module, i) ==
    IF i <= Len(w.plugins)
    THEN [w EXCEPT !.pluginCall =
                       [phase |-> phase, index |-> i, module |-> module]]
    ELSE CASE phase = "before" -> operate(w, module)
           [] phase = "after" -> afterHooks(w, module)
           [] phase = "onError" -> runPass(w, w.pass.kind, w.pass.queue)

\* what follows the loop
endPass(w, kind) ==
    LET w1 == [w EXCEPT !.pass = NoPass]
    IN  CASE kind = "initialize" ->
                LET w2 == inspectorStart([w1 EXCEPT !.initialized = TRUE])
                IN  IF autoStart THEN startModules(w2) ELSE passReturned(w2)
          [] kind = "start" -> passReturned(w1)
          [] kind = "stop" -> passReturned([w1 EXCEPT !.initialized = FALSE])

\* a startModules that does not test `initialized`
startModulesUninitialized(w) ==
    LET r == sortModulesByDependencies(w.modules, dependencies, priority)
    IN  IF ~r.ok THEN [w EXCEPT !.thrown = r.err[1]]
        ELSE runPass(w, "start", r.sorted)

\* startModules
startModules(w) ==
    IF ~w.initialized THEN [w EXCEPT !.thrown = "not initialized"]
    ELSE LET r == sortModulesByDependencies(w.modules, dependencies, priority)
         IN  IF ~r.ok THEN [w EXCEPT !.thrown = r.err[1]]
             ELSE runPass(w, "start", r.sorted)

\* initializeModules
initializeModules(w) ==
    IF w.initialized THEN w
    ELSE LET r == sortModulesByDependencies(w.modules, dependencies, priority)
         IN  IF ~r.ok THEN [w EXCEPT !.thrown = r.err[1]]
             ELSE runPass(w, "initialize", r.sorted)

\* a stopModules that takes the modules in the sorted order, not reversed
stopModulesForward(w) ==
    LET w1 == IF w.inspectorRunning THEN inspectorStop(w) ELSE w
        r == sortModulesByDependencies(w1.modules, dependencies, priority)
    IN  IF ~r.ok THEN [w1 EXCEPT !.thrown = r.err[1]]
        ELSE runPass([w1 EXCEPT !.pass.running =
                         {o \in Range(r.sorted) : w1.state[o] = "RUNNING"}],
                     "stop", r.sorted)

\* stopModules
stopModules(w) ==
    LET w1 == IF w.inspectorRunning THEN inspectorStop(w) ELSE w
        r == sortModulesByDependencies(w1.modules, dependencies, priority)
    IN  IF ~r.ok THEN [w1 EXCEPT !.thrown = r.err[1]]
        ELSE runPass([w1 EXCEPT !.pass.running =
                         {o \in Range(r.sorted) : w1.state[o] = "RUNNING"}],
                     "stop", Reverse(r.sorted))

\* clearModules: `this.modules.clear(); this.initialized = false`
clearModules(w) == [w EXCEPT !.modules = <<>>, !.initialized = FALSE]

\* the awaited plugin hook is over
pluginHookOver(w) ==
    [w EXCEPT !.pluginCall = NoPluginCall,
              !.pass.hooks = Append(@, <<w.pluginCall.phase,
                                         w.plugins[w.pluginCall.index]>>)]

\* the plugin hook the pass awaited has returned: the loop over the plugins
\* goes on
pluginHookReturned(w) ==
    LET c == w.pluginCall
    IN  pluginHooks(pluginHookOver(w), c.phase, c.module, c.index + 1)

\* the plugin hook the pass awaited has thrown: inside the try block the
\* catch block takes it; a throw of an onError hook, inside the catch block,
\* leaves the loop and the pass
pluginHookThrew(w) ==
    LET c == w.pluginCall
        w1 == pluginHookOver(w)
    IN  IF c.phase = "onError"
        THEN passRejected([w1 EXCEPT !.pass = NoPass,
                                     !.thrown = "plugin error"])
        ELSE passCatch(w1, c.module)

\* registerPlugin: push, and `await plugin.initialize(this)`, which is the
\* plugin's own code
registerPlugin(w, plugin) == [w EXCEPT !.plugins = Append(@, plugin)]

(***************************************************************************)
(* main() and its shutdownHandler (src/src/utils/logger.ts)                *)
(***************************************************************************)
\* main from `await moduleManager.initializeModules()` on: a pass that
\* throws at once is caught by main (exit 1), one that returns at once lets
\* main install the handlers
mainInitializes(w) ==
    LET w1 == initializeModules([w EXCEPT !.main.phase = "initializing"])
    IN  IF w1.thrown # "none" THEN exit(w1, 1) ELSE w1

\* shutdownHandler from `await moduleManager.stopModules()` on
shutdownStops(w) ==
    LET w1 == stopModules([w EXCEPT !.main.phase = "stopping",
                                    !.main.stopModulesCalls = @ + 1])
    IN  IF w1.thrown # "none" THEN exit(w1, 1) ELSE w1

\* a handler that does not test shuttingDown
shutdownHandlerUnguarded(w) ==
    LET w1 == [w EXCEPT !.main.shuttingDown = TRUE,
                        !.main.shutdownTimeout = TRUE]
    IN  IF w1.main.checkLeaksOnShutdown
        THEN [w1 EXCEPT !.main.phase = "leaks"]
        ELSE shutdownStops(w1)

\* shutdownHandler(signal)
shutdownHandler(w) ==
    IF w.main.shuttingDown THEN exit(w, 1)
    ELSE LET w1 == [w EXCEPT !.main.shuttingDown = TRUE,
                             !.main.shutdownTimeout = TRUE]
         IN  IF w1.main.checkLeaksOnShutdown
             THEN [w1 EXCEPT !.main.phase = "leaks"]
             ELSE shutdownStops(w1)

(***************************************************************************)
(* The code that awaited a module operation resumes.                       *)
(***************************************************************************)
\* recoverModule returns r for the name (or awaits: "pending"); the results
\* are followed for the names of the followed objects
RecoverReturns(w, moduleName, r) ==
    IF \E o \in demandTracked : NameOf(o) = moduleName
    THEN [w EXCEPT !.recoverReturned[moduleName] = r]
    ELSE w

\* a recovery ends: when recoverModule awaited it, recoverModule returns r
\* (the timer of attemptModuleRecovery returns nothing)
RecoveryEnds(w, moduleName, r) ==
    IF w.recoverReturned[moduleName] = "pending"
    THEN RecoverReturns(w, moduleName, r)
    ELSE w

\* the end of a recovery whose initialize() and start() both returned:
\* this.recoveryAttempts.delete(moduleName)
recovered(w, moduleName) ==
    RecoveryEnds([w EXCEPT !.recoveryAttempts[moduleName] = 0,
                           !.attemptsBegun[moduleName] = 0,
                           !.scheduled[moduleName] = 0],
                 moduleName, "true")

\* loadModuleOnDemand returns r for object o (or awaits: "pending")
Returns(w, o, r) ==
    IF o \in demandTracked THEN [w EXCEPT !.returned[o] = r] ELSE w

\* the operation returned
resume(w, c) ==
    CASE c.cont = "none" -> w
      [] c.cont = "demand" -> Returns(w, c.obj, "module")
      [] c.cont = "thenStart" -> beginOperation(w, c.obj, "start", "none")
      [] c.cont = "demandStart" ->
            IF Accepts("start", w.state[c.obj])
            THEN beginOperation(w, c.obj, "start", "demand")
            ELSE Returns(w, c.obj, "module")
      [] c.cont = "recoverInit" ->
            IF Accepts("start", w.state[c.obj])
            THEN beginOperation(w, c.obj, "start", "recoverStart")
            ELSE recovered(w, NameOf(c.obj))
      [] c.cont = "recoverStart" -> recovered(w, NameOf(c.obj))
      [] c.cont = "pass" -> operated(w, c.obj)

\* the operation threw: a pass catches it and goes on, a recovery and
\* loadModuleOnDemand catch and log it, the others (a direct call, restart,
\* restartModule, createModule) let it go to their caller
rethrow(w, c) ==
    CASE c.cont = "pass" -> passCatch(w, c.obj)
      [] c.cont \in {"none", "thenStart"} -> [w EXCEPT !.thrown = "hook error"]
      [] c.cont \in {"demand", "demandStart"} -> Returns(w, c.obj, "undefined")
      [] c.cont \in {"recoverInit", "recoverStart"} ->
            RecoveryEnds(w, NameOf(c.obj), "false")
      [] OTHER -> w

\* a hook returns: Module.initialize/start/stop after `await this.on...()`
hookReturned(w, c) ==
    resume(setState([w EXCEPT !.calls = @ (-) SetToBag({c})],
                    c.obj, SuccessState(c.hook)), c)

\* a hook throws: the catch block of Module.initialize/start/stop
hookThrew(w, c) ==
    rethrow(handleError([w EXCEPT !.calls = @ (-) SetToBag({c})],
                        c.obj, Operation(c.hook)), c)

(***************************************************************************)
(* ModuleManager: single-module operations                                 *)
(***************************************************************************)
\* Module.restart: `await this.stop(); await this.start()`
restart(w, o) ==
    IF Accepts("stop", w.state[o])
    THEN beginOperation(w, o, "stop", "thenStart")
    ELSE beginOperation(w, o, "start", "none")

\* restartModule
restartModule(w, moduleName) ==
    IF ~Registered(w.modules, moduleName)
    THEN [w EXCEPT !.thrown = "not found"]
    ELSE restart(w, GetModule(w.modules, moduleName))

\* a recovery that leaves out module.reset()
recoverWithoutReset(w, moduleName) ==
    IF ~Registered(w.modules, moduleName) THEN w
    ELSE LET o == GetModule(w.modules, moduleName)
         IN  IF ~hasError(w, o) THEN w
             ELSE beginOperation(w, o, "initialize", "recoverInit")

\* the body shared by recoverModule and the timer of attemptModuleRecovery:
\* reset, initialize, start, recoveryAttempts.delete
recover(w, moduleName) ==
    IF ~Registered(w.modules, moduleName) THEN w
    ELSE LET o == GetModule(w.modules, moduleName)
         IN  IF ~hasError(w, o) THEN w
             ELSE beginOperation(reset(w, o), o, "initialize", "recoverInit")

\* recoverModule refuses: it returns false (one call is followed for each
\* name: the result of a call made while another awaits is not recorded)
RecoverRefuses(w, moduleName) ==
    IF w.recoverReturned[moduleName] = "pending" THEN w
    ELSE RecoverReturns(w, moduleName, "false")

\* a recoverModule that recovers a registered module in any state
recoverModuleAnyState(w, moduleName) ==
    IF ~Registered(w.modules, moduleName)
    THEN RecoverRefuses(w, moduleName)
    ELSE LET o == GetModule(w.modules, moduleName)
         IN  RecoverReturns(beginOperation(reset(w, o), o, "initialize",
                                           "recoverInit"),
                            moduleName, "pending")

\* recoverModule: false for a name that is not registered or whose module
\* has no error; else the recovery, awaited
recoverModule(w, moduleName) ==
    IF ~Registered(w.modules, moduleName)
    THEN RecoverRefuses(w, moduleName)
    ELSE IF ~hasError(w, GetModule(w.modules, moduleName))
         THEN RecoverRefuses(w, moduleName)
         ELSE RecoverReturns(recover(w, moduleName), moduleName, "pending")

\* the callback attemptModuleRecovery gave to setTimeout; it begins a
\* recovery when the module is still registered and hasError()
recoveryTimer(w, moduleName) ==
    LET w1 == [w EXCEPT !.timers[moduleName] = @ - 1]
        begins == /\ Registered(w1.modules, moduleName)
                  /\ hasError(w1, GetModule(w1.modules, moduleName))
    IN  recover(IF begins
                THEN [w1 EXCEPT !.attemptsBegun[moduleName] =
                                    IF @ <= MaxAttempts THEN @ + 1 ELSE @]
                ELSE w1,
                moduleName)

\* createModule
createModule(w, o) ==
    LET w1 == registerModule(w, o)
    IN  IF w1.thrown # "none" THEN w1
        ELSE IF w1.initialized
             THEN beginOperation(w1, o, "initialize", "thenStart")
             ELSE w1

\* loadModuleOnDemand; o is the object loadModuleFromPath constructs.  It
\* returns the module registered under the name if there is one; undefined
\* when loadModuleFromPath throws or answers "disabled"; else the module,
\* after `await module.initialize()` and, with autoStart,
\* `await module.start()` if the Manager is initialized
loadModuleOnDemand(w, o) ==
    IF Registered(w.modules, NameOf(o)) THEN Returns(w, o, "existing")
    ELSE LET w1 == loadModuleFromPath(w, o)
         IN  IF w1.thrown # "none"
             THEN Returns([w1 EXCEPT !.thrown = "none"], o, "undefined")
             ELSE IF IsDisabled(NameOf(o)) THEN Returns(w1, o, "undefined")
             ELSE IF w1.initialized
                  THEN beginOperation(Returns(w1, o, "pending"), o,
                                      "initialize",
                                      IF autoStart THEN "demandStart"
                                      ELSE "demand")
                  ELSE Returns(w1, o, "module")

\* loadModuleOnDemand for a name with no module file: the import throws,
\* the catch block logs and returns undefined
loadMissingModuleOnDemand(w, o) == Returns(w, o, "undefined")

(***************************************************************************)
(* Initial states.                                                         *)
(***************************************************************************)
NoDeps == [n \in Names |-> <<>>]

\* the dependency graphs the Manager is run on: A depends on B, a
\* two-module cycle (scenario 2 of spec.md), a module that lists itself
DepGraphs ==
    {[NoDeps EXCEPT !["A"] = <<"B">>],
     [NoDeps EXCEPT !["A"] = <<"B">>, !["B"] = <<"A">>],
     [NoDeps EXCEPT !["A"] = <<"A">>]}

DefaultPriorities == [n \in Names |-> DefaultPriority]

NoneDisabled == [n \in Names |-> FALSE]

\* which module is disabled, and where: nowhere, B in its metadata
\* (scenario 3 of spec.md), B in its config document
DisabledChoices ==
    {<<NoneDisabled, NoneDisabled>>,
     <<[NoneDisabled EXCEPT !["B"] = TRUE], NoneDisabled>>,
     <<NoneDisabled, [NoneDisabled EXCEPT !["B"] = TRUE]>>}

\* the state after `new ModuleManager(options)`, no module constructed yet
InitDynamic ==
    /\ state = [o \in Objs |-> "UNINITIALIZED"]
    /\ lastError = [o \in Objs |-> FALSE]
    /\ listeners = [o \in Objs |-> 0]
    /\ calls = EmptyBag
    /\ illegal = {}
    /\ modules = <<>>
    /\ initialized = FALSE
    /\ recoveryAttempts = [n \in Names |-> 0]
    /\ timers = [n \in Names |-> 0]
    /\ attemptsBegun = [n \in Names |-> 0]
    /\ pass = NoPass
    /\ plugins = <<>>
    /\ pluginCall = NoPluginCall
    /\ batch = NoBatch
    /\ broadcast = NoBroadcast
    /\ main = NoMain
    /\ returned = [o \in Objs |-> "none"]
    /\ moduleCache = NoCache
    /\ cacheCall = NoCacheCall
    /\ configs = NoConfigs
    /\ configFiles = NoConfigFiles
    /\ configCall = NoConfigCall
    /\ recoverReturned = [n \in Names |-> "none"]
    /\ passOrder = NoOrder
    /\ scheduled = [n \in Names |-> 0]
    /\ thrown = "none"
    /\ events = NoEvents
    /\ inspectorRunning = FALSE
    /\ snapshots = [n \in Names |-> <<>>]
    /\ analyses = 0
    /\ startTimes = {}
    /\ metrics = [n \in Names |-> NoMetrics]

NoSortResult == [done |-> FALSE, ok |-> TRUE, sorted |-> <<>>, err |-> <<>>]

NotCompared == [done |-> FALSE, ab |-> 0, ba |-> 0, bc |-> 0, ac |-> 0]

\* compareVersions is not called
NothingCompared ==
    /\ versions = <<>>
    /\ compared = NotCompared

\* a ring of one snapshot, and an environment that does not change
InitEnvironment ==
    /\ maxSnapshots = 1
    /\ eventHandlers = {}
    /\ thresholds = DefaultThresholds
    /\ demandTracked = {}
    /\ now = 0
    /\ heapUsed = 0

\* nothing is prescribed to the hooks: each call may return or throw
NoFault == [module |-> "none", thrown |-> FALSE]

Scenario(deps, dis, auto, rec, avail) ==
    [dependencies |-> deps, disabled |-> dis[1], configDisabled |-> dis[2],
     autoStart |-> auto, recoveryEnabled |-> rec, available |-> avail]

NothingDisabled == <<NoneDisabled, NoneDisabled>>

\* the runs of the Manager with the recovery supervisor off (the default):
\* two module classes A and B on every graph, with every choice of the
\* disabled module and of autoStart; and A depending on B with a second
\* instance of A at hand
Scenarios ==
    {Scenario(g, d, a, FALSE, {"A", "B"}) :
        g \in DepGraphs, d \in DisabledChoices, a \in BOOLEAN}
    \cup {Scenario([NoDeps EXCEPT !["A"] = <<"B">>], NothingDisabled, a, FALSE,
                   {"A", "B", "A2"}) : a \in BOOLEAN}

\* the runs with recovery.enabled: A depends on B
RecoveryScenarios ==
    {Scenario([NoDeps EXCEPT !["A"] = <<"B">>], NothingDisabled, FALSE, TRUE,
              {"A", "B"})}

\* the state after `new ModuleManager(options)` for the options and the
\* module classes of scenario sc
InitOptions(sc) ==
    /\ dependencies = sc.dependencies
    /\ disabled = sc.disabled
    /\ configDisabled = sc.configDisabled
    /\ autoStart = sc.autoStart
    /\ recoveryEnabled = sc.recoveryEnabled
    /\ available = sc.available
    /\ priority = DefaultPriorities
    /\ InitDynamic
    /\ sortResult = NoSortResult
    /\ leaks = NotAnalyzed
    /\ report = NotReported
    /\ NothingCompared

InitScenario(sc) ==
    /\ InitOptions(sc)
    /\ fault = NoFault
    /\ healthTracked = {}
    /\ InitEnvironment

Init == \E sc \in Scenarios : InitScenario(sc)

InitRecovery == \E sc \in RecoveryScenarios : InitScenario(sc)

(***************************************************************************)
(* Actions of the Manager.                                                 *)
(***************************************************************************)
\* an object as `new ModuleClass()` returns it
Fresh(o) ==
    /\ o \in available
    /\ ~InSeq(o, modules)
    /\ state[o] = "UNINITIALIZED"
    /\ ~lastError[o]
    /\ listeners[o] = 0
    /\ \A c \in BagToSet(calls) : c.obj # o

\* one directory of loadModules: loadModuleFromPath on a new object
LoadModule(o) ==
    /\ Fresh(o)
    /\ Apply(loadModuleFromPath(World, o))

RegisterModule(o) ==
    /\ Fresh(o)
    /\ Apply(registerModule(World, o))

CreateModule(o) ==
    /\ Fresh(o)
    /\ Apply(createModule(World, o))

LoadModuleOnDemand(o) ==
    /\ Fresh(o)
    /\ Apply(loadModuleOnDemand(World, o))

\* the passes are called one after the other, as main() does
InitializeModules ==
    /\ pass.kind = "none"
    /\ Apply(initializeModules(World))

StartModules ==
    /\ pass.kind = "none"
    /\ Apply(startModules(World))

StopModules ==
    /\ pass.kind = "none"
    /\ Apply(stopModules(World))

RestartModule(n) ==
    /\ n \in Names
    /\ Apply(restartModule(World, n))

RecoverModule(n) ==
    /\ n \in Names
    /\ Apply(recoverModule(World, n))

RecoveryTimer(n) ==
    /\ timers[n] > 0
    /\ Apply(recoveryTimer(World, n))

HookReturns(c) ==
    /\ BagIn(c, calls)
    /\ Apply(hookReturned(World, c))

\* the number of pending timers is kept within MaxTimers
HookThrows(c) ==
    /\ BagIn(c, calls)
    /\ LET w == hookThrew(World, c)
       IN  /\ \A n \in Names : w.timers[n] <= MaxTimers
           /\ Apply(w)

\* the interval timer of the inspector: takeSnapshot (analyzeMemoryUsage
\* changes nothing of this state)
InspectorTick ==
    /\ inspectorRunning
    /\ Apply(takeSnapshot(World))

Calls == {Call(o, h, k) : o \in Objs, h \in Hooks, k \in Continuations}

Next ==
    \/ \E o \in Objs : LoadModule(o)
    \/ \E o \in Objs : RegisterModule(o)
    \/ \E o \in Objs : CreateModule(o)
    \/ \E o \in Objs : LoadModuleOnDemand(o)
    \/ InitializeModules
    \/ StartModules
    \/ StopModules
    \/ \E n \in Names : RestartModule(n)
    \/ \E n \in Names : RecoverModule(n)
    \/ \E c \in Calls : HookReturns(c)
    \/ \E c \in Calls : HookThrows(c)
    \/ InspectorTick

Spec == Init /\ [][Next]_vars

\* with recovery.enabled the timers of attemptModuleRecovery fire as well
NextRecovery ==
    \/ Next
    \/ \E n \in Names : RecoveryTimer(n)

SpecRecovery == InitRecovery /\ [][NextRecovery]_vars

(***************************************************************************)
(* SpecSupervisor: the Manager driven by its passes, with recovery.enabled *)
(* true or false and autoStart on or off; the recovery timers fire at any  *)
(* moment.  A depends on B.                                                *)
(***************************************************************************)
InitSupervisor ==
    /\ \E a \in BOOLEAN, rec \in BOOLEAN :
          InitOptions(Scenario([NoDeps EXCEPT !["A"] = <<"B">>],
                               NothingDisabled, a, rec, {"A", "B"}))
    /\ fault = NoFault
    /\ healthTracked = {}
    /\ InitEnvironment

NextSupervisor ==
    \/ \E o \in Objs : LoadModule(o)
    \/ InitializeModules
    \/ StartModules
    \/ StopModules
    \/ \E c \in Calls : HookReturns(c)
    \/ \E c \in Calls : HookThrows(c)
    \/ \E n \in Names : RecoveryTimer(n)

SpecSupervisor == InitSupervisor /\ [][NextSupervisor]_vars

(***************************************************************************)
(* SpecRecover: recoverModule called at any moment on a Manager with       *)
(* recovery.enabled, while the passes run, the hooks return or throw and   *)
(* the recovery timers fire.  A depends on B; C is never registered.  The  *)
(* results of recoverModule are followed.                                  *)
(***************************************************************************)
InitRecover ==
    /\ \E a \in BOOLEAN :
          InitOptions(Scenario([NoDeps EXCEPT !["A"] = <<"B">>],
                               NothingDisabled, a, TRUE, {"A", "B"}))
    /\ fault = NoFault
    /\ healthTracked = {}
    /\ maxSnapshots = 1
    /\ eventHandlers = {}
    /\ thresholds = DefaultThresholds
    /\ demandTracked = Objs
    /\ now = 0
    /\ heapUsed = 0

NextRecover ==
    \/ \E o \in Objs : LoadModule(o)
    \/ InitializeModules
    \/ StartModules
    \/ \E n \in Names : RecoverModule(n)
    \/ \E c \in Calls : HookReturns(c)
    \/ \E c \in Calls : HookThrows(c)
    \/ \E n \in Names : RecoveryTimer(n)

SpecRecover == InitRecover /\ [][NextRecover]_vars

(***************************************************************************)
(* SpecInterleaving: the passes of the Manager interleaved with the        *)
(* recovery timers, recoverModule, restartModule and loadModuleOnDemand,   *)
(* with recovery.enabled and autoStart.  A depends on B.                   *)
(***************************************************************************)
InitInterleaving ==
    /\ InitOptions(Scenario([NoDeps EXCEPT !["A"] = <<"B">>],
                            NothingDisabled, TRUE, TRUE, {"A", "B"}))
    /\ fault = NoFault
    /\ healthTracked = {}
    /\ InitEnvironment

NextInterleaving ==
    \/ \E o \in Objs : LoadModule(o)
    \/ \E o \in Objs : LoadModuleOnDemand(o)
    \/ InitializeModules
    \/ StartModules
    \/ StopModules
    \/ \E n \in Names : RestartModule(n)
    \/ \E n \in Names : RecoverModule(n)
    \/ \E n \in Names : RecoveryTimer(n)
    \/ \E c \in Calls : HookReturns(c)
    \/ \E c \in Calls : HookThrows(c)

SpecInterleaving == InitInterleaving /\ [][NextInterleaving]_vars

(***************************************************************************)
(* SpecOrder: the passes of the Manager on three modules whose hooks all   *)
(* return, with autoStart on or off; the order in which the passes start   *)
(* and stop the modules is followed.  The graphs: A depends on B and C and *)
(* B on C (scenario 1 of spec.md); A depends on B; no dependency.  The     *)
(* priorities: the default for all, or a higher one for A or for C.        *)
(***************************************************************************)
OrderGraphs ==
    {[NoDeps EXCEPT !["A"] = <<"B", "C">>, !["B"] = <<"C">>],
     [NoDeps EXCEPT !["A"] = <<"B">>],
     NoDeps}

OrderPriorities ==
    {DefaultPriorities,
     [DefaultPriorities EXCEPT !["A"] = HighPriority],
     [DefaultPriorities EXCEPT !["C"] = HighPriority]}

InitOrder ==
    /\ dependencies \in OrderGraphs
    /\ priority \in OrderPriorities
    /\ disabled = NoneDisabled
    /\ configDisabled = NoneDisabled
    /\ autoStart \in BOOLEAN
    /\ recoveryEnabled = FALSE
    /\ available = {"A", "B", "C"}
    /\ InitDynamic
    /\ sortResult = NoSortResult
    /\ leaks = NotAnalyzed
    /\ report = NotReported
    /\ NothingCompared
    /\ fault = NoFault
    /\ healthTracked = {}
    /\ maxSnapshots = 1
    /\ eventHandlers = {}
    /\ thresholds = DefaultThresholds
    /\ demandTracked = Objs
    /\ now = 0
    /\ heapUsed = 0

NextOrder ==
    \/ \E o \in Objs : LoadModule(o)
    \/ InitializeModules
    \/ StartModules
    \/ StopModules
    \/ \E c \in Calls : HookReturns(c)

SpecOrder == InitOrder /\ [][NextOrder]_vars

(***************************************************************************)
(* SpecHealth: a ModuleHealth whose trackStart, trackEnd and trackError    *)
(* are called in any order for the module A; the counters grow up to       *)
(* MaxCalls.                                                               *)
(***************************************************************************)
InitHealth ==
    /\ InitOptions(Scenario(NoDeps, NothingDisabled, FALSE, FALSE, {"A"}))
    /\ fault = NoFault
    /\ healthTracked = {"A"}
    /\ InitEnvironment

TrackStart(o, operation) ==
    /\ NameOf(o) \in healthTracked
    /\ Apply(trackStart(World, o, operation))

\* a call that counts is made while the counters it increments are below
\* MaxCalls
TrackEnd(o, operation, success) ==
    /\ NameOf(o) \in healthTracked
    /\ <<NameOf(o), operation>> \in startTimes =>
           /\ metrics[NameOf(o)].count[operation] < MaxCalls
           /\ ~success => metrics[NameOf(o)].errorCount < MaxCalls
    /\ Apply(trackEnd(World, o, operation, success))

TrackError(o) ==
    /\ NameOf(o) \in healthTracked
    /\ metrics[NameOf(o)].errorCount < MaxCalls
    /\ Apply(trackError(World, o))

NextHealth ==
    \/ \E o \in Objs, operation \in Hooks : TrackStart(o, operation)
    \/ \E o \in Objs, operation \in Hooks, success \in BOOLEAN :
          TrackEnd(o, operation, success)
    \/ \E o \in Objs : TrackError(o)

SpecHealth == InitHealth /\ [][NextHealth]_vars

(***************************************************************************)
(* SpecSort: sortModulesByDependencies called on every registry of at most *)
(* three modules, every dependency array of at most MaxDeps names (a       *)
(* module may list itself, or a name that is not registered) and every     *)
(* assignment of two priorities.                                           *)
(***************************************************************************)
InitSort ==
    /\ dependencies \in [Names -> InjSeqs(Names, MaxDeps)]
    /\ priority \in [Names -> PriorityLevels]
    /\ disabled = NoneDisabled
    /\ configDisabled = NoneDisabled
    /\ autoStart = FALSE
    /\ recoveryEnabled = FALSE
    /\ available = {}
    /\ modules \in InjSeqs(Names, Cardinality(Names))
    /\ state = [o \in Objs |-> "UNINITIALIZED"]
    /\ lastError = [o \in Objs |-> FALSE]
    /\ listeners = [o \in Objs |-> IF InSeq(o, modules) THEN 1 ELSE 0]
    /\ calls = EmptyBag
    /\ illegal = {}
    /\ initialized = FALSE
    /\ recoveryAttempts = [n \in Names |-> 0]
    /\ timers = [n \in Names |-> 0]
    /\ attemptsBegun = [n \in Names |-> 0]
    /\ pass = NoPass
    /\ plugins = <<>>
    /\ pluginCall = NoPluginCall
    /\ batch = NoBatch
    /\ broadcast = NoBroadcast
    /\ main = NoMain
    /\ returned = [o \in Objs |-> "none"]
    /\ moduleCache = NoCache
    /\ cacheCall = NoCacheCall
    /\ configs = NoConfigs
    /\ configFiles = NoConfigFiles
    /\ configCall = NoConfigCall
    /\ recoverReturned = [n \in Names |-> "none"]
    /\ passOrder = NoOrder
    /\ scheduled = [n \in Names |-> 0]
    /\ thrown = "none"
    /\ events = NoEvents
    /\ inspectorRunning = FALSE
    /\ snapshots = [n \in Names |-> <<>>]
    /\ analyses = 0
    /\ startTimes = {}
    /\ metrics = [n \in Names |-> NoMetrics]
    /\ sortResult = NoSortResult
    /\ leaks = NotAnalyzed
    /\ report = NotReported
    /\ NothingCompared
    /\ fault = NoFault
    /\ healthTracked = {}
    /\ InitEnvironment

SortModules ==
    /\ ~sortResult.done
    /\ LET r == sortModulesByDependencies(modules, dependencies, priority)
       IN  sortResult' = [done |-> TRUE, ok |-> r.ok, sorted |-> r.sorted,
                          err |-> r.err]
    /\ UNCHANGED <<staticVars, dynVars, versions, compared, leaks, report, fault,
                   healthTracked, envVars>>

NextSort == SortModules

SpecSort == InitSort /\ [][NextSort]_vars

(***************************************************************************)
(* SpecVersions: compareVersions called on every three version strings a,  *)
(* b, c of at most MaxComponents components (c of one component less), the *)
(* components being "0", "9" and "10".                                     *)
(***************************************************************************)
ComponentStrings == {<<0>>, <<9>>, <<1, 0>>}

VersionsUpTo(n) == UNION {[1..k -> ComponentStrings] : k \in 1..n}

VersionStrings == VersionsUpTo(MaxComponents)

InitVersions ==
    /\ dependencies = NoDeps
    /\ priority = DefaultPriorities
    /\ disabled = NoneDisabled
    /\ configDisabled = NoneDisabled
    /\ autoStart = FALSE
    /\ recoveryEnabled = FALSE
    /\ available = {}
    /\ InitDynamic
    /\ sortResult = NoSortResult
    /\ leaks = NotAnalyzed
    /\ report = NotReported
    /\ fault = NoFault
    /\ healthTracked = {}
    /\ InitEnvironment
    /\ versions \in VersionStrings \X VersionStrings
                       \X VersionsUpTo(MaxComponents - 1)
    /\ compared = NotCompared

CompareVersions ==
    /\ ~compared.done
    /\ compared' = [done |-> TRUE,
                    ab |-> compareVersions(versions[1], versions[2]),
                    ba |-> compareVersions(versions[2], versions[1]),
                    bc |-> compareVersions(versions[2], versions[3]),
                    ac |-> compareVersions(versions[1], versions[3])]
    /\ UNCHANGED <<staticVars, dynVars, sortResult, versions, leaks, report, fault,
                   healthTracked, envVars>>

NextVersions == CompareVersions

SpecVersions == InitVersions /\ [][NextVersions]_vars

(***************************************************************************)
(* SpecModule: one Module object, registered nowhere, driven through its   *)
(* public operations in any order, a new call being possible while the     *)
(* hook of an earlier one is still in progress.                            *)
(***************************************************************************)
InitModule ==
    /\ dependencies = NoDeps
    /\ priority = DefaultPriorities
    /\ disabled = NoneDisabled
    /\ configDisabled = NoneDisabled
    /\ autoStart = FALSE
    /\ recoveryEnabled = FALSE
    /\ available = {"A"}
    /\ InitDynamic
    /\ sortResult = NoSortResult
    /\ leaks = NotAnalyzed
    /\ report = NotReported
    /\ NothingCompared
    /\ fault = NoFault
    /\ healthTracked = {}
    /\ InitEnvironment

\* a call of the module's own code; the hooks in progress stay within
\* MaxInFlight
DirectCall(o, w) ==
    /\ o \in available
    /\ BagCardinality(w.calls) <= MaxInFlight
    /\ Apply(w)

ModuleInitialize(o) == DirectCall(o, beginOperation(World, o, "initialize", "none"))

ModuleStart(o) == DirectCall(o, beginOperation(World, o, "start", "none"))

ModuleStop(o) == DirectCall(o, beginOperation(World, o, "stop", "none"))

ModuleRestart(o) == DirectCall(o, restart(World, o))

ModuleReset(o) == DirectCall(o, reset(World, o))

NextModule ==
    \/ \E o \in Objs : ModuleInitialize(o)
    \/ \E o \in Objs : ModuleStart(o)
    \/ \E o \in Objs : ModuleStop(o)
    \/ \E o \in Objs : ModuleRestart(o)
    \/ \E o \in Objs : ModuleReset(o)
    \/ \E c \in Calls : HookReturns(c)
    \/ \E c \in Calls : HookThrows(c)

SpecModule == InitModule /\ [][NextModule]_vars

(***************************************************************************)
(* SpecLifecycle: one Module object driven through initialize, start, stop *)
(* and reset in any order, a new call being possible while the hook of an  *)
(* earlier one is still in progress; the module is registered with a       *)
(* Manager at some moment, or never: the Manager's listener then hears the *)
(* module's error signals, and emits one moduleError for each.             *)
(***************************************************************************)
NextLifecycle ==
    \/ \E o \in Objs : RegisterModule(o)
    \/ \E o \in Objs : ModuleInitialize(o)
    \/ \E o \in Objs : ModuleStart(o)
    \/ \E o \in Objs : ModuleStop(o)
    \/ \E o \in Objs : ModuleReset(o)
    \/ \E c \in Calls : HookReturns(c)
    \/ \E c \in Calls : HookThrows(c)

SpecLifecycle == InitModule /\ [][NextLifecycle]_vars

(***************************************************************************)
(* SpecInspector: the memory inspector of a Manager, the ring being of     *)
(* MaxSnapshots snapshots.  Modules are registered; the inspector is       *)
(* started and stopped, its interval timer fires, takeSnapshot,            *)
(* analyzeMemory and clearMemorySnapshots are called, in any order, while  *)
(* time passes and the heap grows and shrinks.                             *)
(***************************************************************************)
InitInspector ==
    /\ \E d \in DisabledChoices :
          InitOptions(Scenario([NoDeps EXCEPT !["A"] = <<"B">>], d, FALSE,
                               FALSE, {"A", "B"}))
    /\ fault = NoFault
    /\ healthTracked = {}
    /\ maxSnapshots = MaxSnapshots
    /\ eventHandlers = {}
    /\ thresholds = DefaultThresholds
    /\ demandTracked = {}
    /\ now = 0
    /\ heapUsed = 0

InspectorStart ==
    /\ ~inspectorRunning
    /\ Apply(inspectorStart(World))

InspectorStop ==
    /\ inspectorRunning
    /\ Apply(inspectorStop(World))

TakeSnapshot ==
    /\ modules # <<>>
    /\ Apply(takeSnapshot(World))

ClearSnapshots ==
    /\ \E n \in Names : snapshots[n] # <<>>
    /\ Apply(clearSnapshots(World))

AnalyzeMemory ==
    /\ analyses < MaxAnalyses
    /\ Apply(analyzeMemory(World))

AnalyzeMemoryResumes ==
    /\ analyses > 0
    /\ Apply(analyzeMemoryResumed(World))

TimePasses ==
    /\ now < MaxTime
    /\ now' = now + 1
    /\ UNCHANGED <<staticVars, dynVars, pureVars, fault, healthTracked,
                   heapUsed>>

HeapChanges ==
    /\ heapUsed' \in (0..MaxHeap) \ {heapUsed}
    /\ UNCHANGED <<staticVars, dynVars, pureVars, fault, healthTracked,
                   now>>

NextInspector ==
    \/ \E o \in Objs : LoadModule(o)
    \/ InspectorStart
    \/ InspectorStop
    \/ InspectorTick
    \/ TakeSnapshot
    \/ ClearSnapshots
    \/ AnalyzeMemory
    \/ AnalyzeMemoryResumes
    \/ TimePasses
    \/ HeapChanges

SpecInspector == InitInspector /\ [][NextInspector]_vars

(***************************************************************************)
(* SpecConfig: one ModuleConfig object over a directory that holds, for    *)
(* each of two names, no file, a file that is not JSON, or a file with a   *)
(* configuration; loadConfig, saveConfig, updateConfig and deleteConfig    *)
(* are called in any order, one at a time.                                 *)
(***************************************************************************)
InitConfig ==
    /\ InitOptions(Scenario(NoDeps, NothingDisabled, FALSE, FALSE, {"A"}))
    /\ fault = NoFault
    /\ healthTracked = {}
    /\ InitEnvironment

\* a file is put under configPath from outside the program
FileCreated(name, content) ==
    /\ configFiles[name].kind = "missing"
    /\ Apply([World EXCEPT !.configFiles[name] = content])

LoadConfig(name) ==
    /\ name \in ConfigNames
    /\ Apply(loadConfig(World, name))

SaveConfig(name, config) ==
    /\ name \in ConfigNames
    /\ Apply(saveConfig(World, name, config))

UpdateConfig(name, updates) ==
    /\ name \in ConfigNames
    /\ Apply(updateConfig(World, name, updates))

DeleteConfig(name) ==
    /\ name \in ConfigNames
    /\ Apply(deleteConfig(World, name))

NextConfig ==
    \/ \E name \in ConfigNames,
          content \in {JsonFile(c) : c \in ConfigData} \cup {InvalidFile} :
          FileCreated(name, content)
    \/ \E name \in ConfigNames : LoadConfig(name)
    \/ \E name \in ConfigNames, config \in ConfigData : SaveConfig(name, config)
    \/ \E name \in ConfigNames, updates \in ConfigData :
          UpdateConfig(name, updates)
    \/ \E name \in ConfigNames : DeleteConfig(name)

SpecConfig == InitConfig /\ [][NextConfig]_vars

(***************************************************************************)
(* SpecCache: the TTL cache of a Manager.  setCachedData and getCachedData *)
(* are called on two keys, with two data values and every maxAge up to     *)
(* MaxTime, while the clock moves from 0 to MaxTime.                       *)
(***************************************************************************)
InitCache ==
    /\ InitOptions(Scenario(NoDeps, NothingDisabled, FALSE, FALSE, {"A"}))
    /\ fault = NoFault
    /\ healthTracked = {}
    /\ InitEnvironment

GetCachedData(key, maxAge) ==
    /\ key \in CacheKeys
    /\ Apply(getCachedData(World, key, maxAge))

SetCachedData(key, data) ==
    /\ key \in CacheKeys
    /\ Apply(setCachedData(World, key, data))

NextCache ==
    \/ \E key \in CacheKeys, maxAge \in 0..MaxTime : GetCachedData(key, maxAge)
    \/ \E key \in CacheKeys, data \in CacheData : SetCachedData(key, data)
    \/ TimePasses

SpecCache == InitCache /\ [][NextCache]_vars

(***************************************************************************)
(* SpecAnalysis: analyzeMemoryUsage on the rings takeSnapshot builds.  The *)
(* clock is in milliseconds and the heap in bytes; the clock moves forward *)
(* over TimeGrid (18 s, 36 s = 0.01 hour, one hour, two hours) and the     *)
(* heap over HeapGrid (whole numbers of MB), snapshots are taken at any of *)
(* these moments, and analyzeMemoryUsage is called at any moment.  The     *)
(* thresholds are the default ones or an option of the constructor.        *)
(***************************************************************************)
TimeGrid == {0, 18000, 36000, 3600000, 7200000}

HeapGrid == {mb * 1024 * 1024 : mb \in {0, 5, 20, 25, 50}}

ThresholdChoices ==
    {DefaultThresholds, [low |-> 20, medium |-> 25, high |-> 25]}

InitAnalysis ==
    /\ InitOptions(Scenario(NoDeps, NothingDisabled, FALSE, FALSE, {"A"}))
    /\ fault = NoFault
    /\ healthTracked = {}
    /\ maxSnapshots = MaxSnapshots
    /\ eventHandlers = {}
    /\ thresholds \in ThresholdChoices
    /\ demandTracked = {}
    /\ now = 0
    /\ heapUsed \in HeapGrid

ClockAdvances ==
    /\ now' \in {t \in TimeGrid : t > now}
    /\ UNCHANGED <<staticVars, dynVars, pureVars, fault, healthTracked,
                   heapUsed>>

HeapMoves ==
    /\ heapUsed' \in HeapGrid \ {heapUsed}
    /\ UNCHANGED <<staticVars, dynVars, pureVars, fault, healthTracked,
                   now>>

AnalyzeMemoryUsage ==
    /\ leaks' = analyzeMemoryUsage(snapshots)
    /\ UNCHANGED <<staticVars, dynVars, sortResult, versions, compared, report,
                   fault, healthTracked, envVars>>

NextAnalysis ==
    \/ \E o \in Objs : LoadModule(o)
    \/ TakeSnapshot
    \/ ClockAdvances
    \/ HeapMoves
    \/ AnalyzeMemoryUsage

SpecAnalysis == InitAnalysis /\ [][NextAnalysis]_vars

(***************************************************************************)
(* SpecReport: generateMemoryReport and analyzeMemoryUsage called on the   *)
(* rings of two registered modules.  The rings are those takeSnapshot      *)
(* builds: every snapshot is taken for all the registered modules at once, *)
(* so the ring of the module registered second is a suffix of the ring of  *)
(* the first, and the keys of the snapshots map are in the order of the    *)
(* registry.  The timestamps are on ReportTimes (18 s, 36 s = 0.01 hour,   *)
(* one hour) and the heap on ReportHeaps (whole numbers of MB).            *)
(***************************************************************************)
ReportTimes == {0, 18000, 36000, 3600000}

ReportHeaps == {mb * 1024 * 1024 : mb \in {0, 5, 25}}

ReportSnapshots == [timestamp : ReportTimes, heapUsed : ReportHeaps]

\* the rings of at most MaxSnapshots + 1 snapshots whose timestamps do not
\* decrease
ReportRings ==
    UNION {{ring \in [1..len -> ReportSnapshots] :
               \A i \in 1..len - 1 :
                   ring[i].timestamp <= ring[i + 1].timestamp} :
           len \in 0..MaxSnapshots + 1}

\* the keys of the snapshots map: the registered names that have a ring
MapKeys ==
    SelectSeq([i \in DOMAIN modules |-> NameOf(modules[i])],
              LAMBDA n : snapshots[n] # <<>>)

InitReport ==
    /\ dependencies = NoDeps
    /\ priority = DefaultPriorities
    /\ disabled = NoneDisabled
    /\ configDisabled = NoneDisabled
    /\ autoStart = FALSE
    /\ recoveryEnabled = FALSE
    /\ available = {}
    /\ modules \in {<<"A", "B">>, <<"B", "A">>}
    /\ state = [o \in Objs |-> "UNINITIALIZED"]
    /\ lastError = [o \in Objs |-> FALSE]
    /\ listeners = [o \in Objs |-> IF InSeq(o, modules) THEN 1 ELSE 0]
    /\ calls = EmptyBag
    /\ illegal = {}
    /\ initialized = FALSE
    /\ recoveryAttempts = [n \in Names |-> 0]
    /\ timers = [n \in Names |-> 0]
    /\ attemptsBegun = [n \in Names |-> 0]
    /\ pass = NoPass
    /\ plugins = <<>>
    /\ pluginCall = NoPluginCall
    /\ batch = NoBatch
    /\ broadcast = NoBroadcast
    /\ main = NoMain
    /\ returned = [o \in Objs |-> "none"]
    /\ moduleCache = NoCache
    /\ cacheCall = NoCacheCall
    /\ configs = NoConfigs
    /\ configFiles = NoConfigFiles
    /\ configCall = NoConfigCall
    /\ recoverReturned = [n \in Names |-> "none"]
    /\ passOrder = NoOrder
    /\ scheduled = [n \in Names |-> 0]
    /\ thrown = "none"
    /\ events = NoEvents
    /\ inspectorRunning = FALSE
    /\ \E ring \in ReportRings, k \in 0..MaxSnapshots + 1 :
          /\ k <= Len(ring)
          /\ snapshots = [n \in Names |->
                            IF n = modules[1] THEN ring
                            ELSE IF n = modules[2]
                            THEN SubSeq(ring, Len(ring) - k + 1, Len(ring))
                            ELSE <<>>]
    /\ analyses = 0
    /\ startTimes = {}
    /\ metrics = [n \in Names |-> NoMetrics]
    /\ sortResult = NoSortResult
    /\ leaks = NotAnalyzed
    /\ report = NotReported
    /\ NothingCompared
    /\ fault = NoFault
    /\ healthTracked = {}
    /\ maxSnapshots = MaxSnapshots + 1
    /\ eventHandlers = {}
    /\ thresholds \in ThresholdChoices
    /\ demandTracked = {}
    /\ now = 0
    /\ heapUsed = 0

GenerateMemoryReport ==
    /\ ~report.done
    /\ report' = [done |-> TRUE,
                  moduleStats |-> generateMemoryReport(snapshots, MapKeys)]
    /\ UNCHANGED <<staticVars, dynVars, sortResult, versions, compared, leaks,
                   fault, healthTracked, envVars>>

NextReport ==
    \/ AnalyzeMemoryUsage
    \/ GenerateMemoryReport

SpecReport == InitReport /\ [][NextReport]_vars

(***************************************************************************)
(* SpecPasses: the Manager as main() drives it.  The modules are loaded,   *)
(* then initializeModules, startModules and stopModules are called one     *)
(* after the other, any number of times; no other operation of the Manager *)
(* or of a module is called.  Recovery is off.                             *)
(***************************************************************************)
InitPasses ==
    /\ \E a \in BOOLEAN :
          InitOptions(Scenario([NoDeps EXCEPT !["A"] = <<"B">>],
                               NothingDisabled, a, FALSE, {"A", "B"}))
    /\ fault = NoFault
    /\ healthTracked = {"A", "B"}
    /\ InitEnvironment

NextPasses ==
    \/ \E o \in Objs : LoadModule(o)
    \/ InitializeModules
    \/ StartModules
    \/ StopModules
    \/ \E c \in Calls : HookReturns(c)
    \/ \E c \in Calls : HookThrows(c)

SpecPasses == InitPasses /\ [][NextPasses]_vars

(***************************************************************************)
(* SpecClear: the Manager driven by its passes, called one after the       *)
(* other as in SpecPasses, and by clearModules, called at any moment, a    *)
(* pass in progress included; new modules are loaded into the emptied      *)
(* registry.                                                               *)
(***************************************************************************)
InitClear ==
    /\ \E a \in BOOLEAN :
          InitOptions(Scenario([NoDeps EXCEPT !["A"] = <<"B">>],
                               NothingDisabled, a, FALSE, {"A", "B", "A2"}))
    /\ fault = NoFault
    /\ healthTracked = {}
    /\ InitEnvironment

ClearModules ==
    /\ modules # <<>> \/ initialized
    /\ Apply(clearModules(World))

NextClear ==
    \/ \E o \in Objs : LoadModule(o)
    \/ InitializeModules
    \/ StartModules
    \/ StopModules
    \/ ClearModules
    \/ \E c \in Calls : HookReturns(c)
    \/ \E c \in Calls : HookThrows(c)

SpecClear == InitClear /\ [][NextClear]_vars

(***************************************************************************)
(* SpecDemand: loadModuleOnDemand called at any moment of a Manager driven *)
(* by its passes, before and after initializeModules, with autoStart on or *)
(* off, for module classes that are enabled, disabled or not to be found;  *)
(* what each call returns is followed.                                     *)
(***************************************************************************)
InitDemand ==
    /\ \E a \in BOOLEAN, d \in DisabledChoices :
          InitOptions(Scenario([NoDeps EXCEPT !["A"] = <<"B">>], d, a, FALSE,
                               {"A", "B"}))
    /\ fault = NoFault
    /\ healthTracked = {}
    /\ maxSnapshots = 1
    /\ eventHandlers = {}
    /\ thresholds = DefaultThresholds
    /\ demandTracked = Objs
    /\ now = 0
    /\ heapUsed = 0

LoadMissingModuleOnDemand(o) ==
    /\ o \notin available
    /\ ~Registered(modules, NameOf(o))
    /\ Apply(loadMissingModuleOnDemand(World, o))

NextDemand ==
    \/ \E o \in Objs : LoadModuleOnDemand(o)
    \/ \E o \in Objs : LoadMissingModuleOnDemand(o)
    \/ InitializeModules
    \/ StartModules
    \/ StopModules
    \/ \E c \in Calls : HookReturns(c)
    \/ \E c \in Calls : HookThrows(c)

SpecDemand == InitDemand /\ [][NextDemand]_vars

(***************************************************************************)
(* SpecBroadcast: the Manager driven by its passes (autoStart on), with    *)
(* calls of broadcastEvent, one at a time, from any source; the passes and *)
(* the modules' hooks go on while a broadcast awaits a receiver.  Either   *)
(* both module classes define onEvent, or A alone.                         *)
(***************************************************************************)
Sources == {"none", "A", "B"}

InitBroadcast ==
    /\ InitOptions(Scenario([NoDeps EXCEPT !["A"] = <<"B">>],
                            NothingDisabled, TRUE, FALSE, {"A", "B"}))
    /\ fault = NoFault
    /\ healthTracked = {}
    /\ maxSnapshots = 1
    /\ eventHandlers \in {{"A", "B"}, {"A"}}
    /\ thresholds = DefaultThresholds
    /\ demandTracked = {}
    /\ now = 0
    /\ heapUsed = 0

BroadcastEvent(sourceModule) ==
    /\ ~broadcast.active
    /\ Apply(broadcastEvent(World, sourceModule))

OnEventReturns ==
    /\ broadcast.awaiting
    /\ Apply(onEventReturned(World))

OnEventThrows ==
    /\ broadcast.awaiting
    /\ Apply(onEventThrew(World))

NextBroadcast ==
    \/ \E o \in Objs : LoadModule(o)
    \/ InitializeModules
    \/ StopModules
    \/ \E c \in Calls : HookReturns(c)
    \/ \E c \in Calls : HookThrows(c)
    \/ \E sourceModule \in Sources : BroadcastEvent(sourceModule)
    \/ OnEventReturns
    \/ OnEventThrows

SpecBroadcast == InitBroadcast /\ [][NextBroadcast]_vars

(***************************************************************************)
(* SpecLoad: loadModules called once on a modules directory that holds any *)
(* of the module classes A, B and a second class named A, and possibly a   *)
(* directory that cannot be loaded; the directories finish loading in any  *)
(* order.                                                                  *)
(***************************************************************************)
InitLoad ==
    /\ \E d \in DisabledChoices :
          InitOptions(Scenario([NoDeps EXCEPT !["A"] = <<"B">>], d, FALSE,
                               FALSE, {"A", "B", "A2"}))
    /\ fault = NoFault
    /\ healthTracked = {}
    /\ InitEnvironment

\* readdir returns any of the directories, one at least
LoadModules ==
    /\ batch.outcome = "none"
    /\ \E dirs \in (SUBSET (available \cup BadDirs)) \ {{}} :
          Apply(loadModules(World, dirs))

DirectoryLoaded(dir) ==
    /\ dir \in batch.pending
    /\ Apply(directoryLoaded(World, dir))

NextLoad ==
    \/ LoadModules
    \/ \E dir \in Objs \cup BadDirs : DirectoryLoaded(dir)

SpecLoad == InitLoad /\ [][NextLoad]_vars

(***************************************************************************)
(* SpecPlugins: the Manager driven by its passes as in SpecPasses, with    *)
(* plugins.  Plugins are registered while no pass is in progress, as       *)
(* main() does; every plugin has every hook, and a hook that is awaited    *)
(* returns or throws.                                                      *)
(***************************************************************************)
PluginNames == {"P", "Q"}

InitPlugins ==
    /\ \E a \in BOOLEAN :
          InitOptions(Scenario([NoDeps EXCEPT !["A"] = <<"B">>],
                               NothingDisabled, a, FALSE, {"A", "B"}))
    /\ fault = NoFault
    /\ healthTracked = {}
    /\ InitEnvironment

RegisterPlugin(p) ==
    /\ pass.kind = "none"
    /\ ~InSeq(p, plugins)
    /\ Apply(registerPlugin(World, p))

PluginHookReturns ==
    /\ pluginCall # NoPluginCall
    /\ Apply(pluginHookReturned(World))

PluginHookThrows ==
    /\ pluginCall # NoPluginCall
    /\ Apply(pluginHookThrew(World))

NextPlugins ==
    \/ \E o \in Objs : LoadModule(o)
    \/ \E p \in PluginNames : RegisterPlugin(p)
    \/ InitializeModules
    \/ StartModules
    \/ StopModules
    \/ \E c \in Calls : HookReturns(c)
    \/ \E c \in Calls : HookThrows(c)
    \/ PluginHookReturns
    \/ PluginHookThrows

SpecPlugins == InitPlugins /\ [][NextPlugins]_vars

(***************************************************************************)
(* SpecShutdown: the Manager as main() runs it (autoStart on), with or     *)
(* without a plugin and the leak check: the modules are loaded, main       *)
(* awaits initializeModules and installs the handlers of SIGINT and        *)
(* SIGTERM; signals are delivered at any time from then on, the timer      *)
(* shutdownTimeout fires at any time once set, and nothing happens once    *)
(* the process has exited.                                                 *)
(***************************************************************************)
Signals == {"SIGINT", "SIGTERM"}

InitShutdown ==
    /\ InitOptions(Scenario([NoDeps EXCEPT !["A"] = <<"B">>],
                            NothingDisabled, TRUE, FALSE, {"A", "B"}))
    /\ fault = NoFault
    /\ healthTracked = {}
    /\ InitEnvironment

\* main is started: checkLeaksOnShutdown is read from the configuration
MainStarts ==
    /\ main.phase = "none"
    /\ \E check \in BOOLEAN :
          Apply([World EXCEPT !.main.phase = "loading",
                              !.main.checkLeaksOnShutdown = check])

MainRegistersPlugin(p) ==
    /\ main.phase = "loading"
    /\ RegisterPlugin(p)

MainLoadsModule(o) ==
    /\ main.phase = "loading"
    /\ LoadModule(o)

MainInitializes ==
    /\ main.phase = "loading"
    /\ Apply(mainInitializes(World))

Signal(signal) ==
    /\ main.phase \in {"serving", "leaks", "stopping"}
    /\ Apply(shutdownHandler(World))

ShutdownTimeout ==
    /\ main.shutdownTimeout
    /\ Apply(exit(World, 1))

LeakCheckReturns ==
    /\ main.phase = "leaks"
    /\ Apply(shutdownStops(World))

LeakCheckThrows ==
    /\ main.phase = "leaks"
    /\ Apply(exit(World, 1))

MainHookReturns(c) ==
    /\ main.phase \in {"initializing", "serving", "leaks", "stopping"}
    /\ HookReturns(c)

MainHookThrows(c) ==
    /\ main.phase \in {"initializing", "serving", "leaks", "stopping"}
    /\ HookThrows(c)

MainPluginHookReturns ==
    /\ main.phase \in {"initializing", "serving", "leaks", "stopping"}
    /\ PluginHookReturns

MainPluginHookThrows ==
    /\ main.phase \in {"initializing", "serving", "leaks", "stopping"}
    /\ PluginHookThrows

NextShutdown ==
    \/ MainStarts
    \/ MainRegistersPlugin("P")
    \/ \E o \in Objs : MainLoadsModule(o)
    \/ MainInitializes
    \/ \E signal \in Signals : Signal(signal)
    \/ ShutdownTimeout
    \/ LeakCheckReturns
    \/ LeakCheckThrows
    \/ \E c \in Calls : MainHookReturns(c)
    \/ \E c \in Calls : MainHookThrows(c)
    \/ MainPluginHookReturns
    \/ MainPluginHookThrows

SpecShutdown == InitShutdown /\ [][NextShutdown]_vars

(***************************************************************************)
(* SpecPartialFailure: scenario 4 of spec.md.  The Manager runs with       *)
(* recovery.enabled; the modules are loaded, initialized and started; the  *)
(* onStart of one module throws on its first call, and every other call of *)
(* a hook returns.  A timer fires some time after it was set and a hook     *)
(* that is to return does return: weak fairness on both.                   *)
(***************************************************************************)
InitPartialFailure ==
    /\ \E sc \in RecoveryScenarios : InitOptions(sc)
    /\ fault \in {[module |-> n, thrown |-> FALSE] : n \in {"A", "B"}}
    /\ healthTracked = {}
    /\ InitEnvironment

\* the first call of the faulty module's onStart
FirstStart(c) ==
    c.hook = "start" /\ NameOf(c.obj) = fault.module /\ ~fault.thrown

ScenarioHookReturns(c) ==
    /\ BagIn(c, calls)
    /\ ~FirstStart(c)
    /\ Apply(hookReturned(World, c))

FirstStartThrows(c) ==
    /\ BagIn(c, calls)
    /\ FirstStart(c)
    /\ ApplyDynamic(hookThrew(World, c))
    /\ fault' = [fault EXCEPT !.thrown = TRUE]
    /\ UNCHANGED <<staticVars, pureVars, healthTracked, envVars>>

NextPartialFailure ==
    \/ \E o \in Objs : LoadModule(o)
    \/ InitializeModules
    \/ StartModules
    \/ \E n \in Names : RecoveryTimer(n)
    \/ \E c \in Calls : ScenarioHookReturns(c)
    \/ \E c \in Calls : FirstStartThrows(c)

SpecPartialFailure ==
    /\ InitPartialFailure
    /\ [][NextPartialFailure]_vars
    /\ WF_vars(\E n \in Names : RecoveryTimer(n))
    /\ WF_vars(\E c \in Calls : ScenarioHookReturns(c))

(***************************************************************************)
(* The claims.                                                             *)
(***************************************************************************)
\* position of the module named n in a sorted array of modules
Position(sorted, n) == IndexOf(GetModule(sorted, n), sorted)

\* C1: on a graph that is acyclic once restricted to the registered modules,
\* sortModulesByDependencies does not throw and returns every registered
\* module exactly once, each registered dependency of a module before it,
\* whatever the priorities and whatever unregistered names are listed.
C1_TopologicalOrder ==
    (sortResult.done /\ ~HasCycle(modules, dependencies)) =>
        /\ sortResult.ok
        /\ Len(sortResult.sorted) = Len(modules)
        /\ Range(sortResult.sorted) = Range(modules)
        /\ \A a, b \in Names :
              DepEdge(modules, dependencies, a, b) =>
                  Position(sortResult.sorted, b) < Position(sortResult.sorted, a)

\* C1 witness: A, of the higher priority, depends on the registered B and
\* on the unregistered C, and has been sorted after B
C1_Witness ==
    /\ sortResult.done
    /\ ~HasCycle(modules, dependencies)
    /\ modules = <<"A", "B">>
    /\ dependencies["A"] = <<"C", "B">>
    /\ priority["A"] > priority["B"]
    /\ sortResult.sorted = <<"B", "A">>

\* a call of one of the three passes
PassCalled == InitializeModules \/ StartModules \/ StopModules

\* the call touched no module: no state, no error, no hook begun, no pass
\* left in progress, and the initialized flag as it was
NoModuleTouched ==
    /\ state' = state
    /\ lastError' = lastError
    /\ calls' = calls
    /\ pass' = NoPass
    /\ initialized' = initialized

\* C2 (as stated): whenever the graph of the registered modules has a cycle,
\* initializeModules, startModules and stopModules each throw the
\* 'Circular dependency' error, no module operation is invoked, no module
\* changes state and the initialized flag is not set.
C2_CycleAlwaysThrows ==
    [][(pass.kind = "none" /\ HasCycle(modules, dependencies)) =>
          (PassCalled =>
              /\ thrown' = "Circular dependency"
              /\ state' = state
              /\ calls' = calls
              /\ (~initialized => ~initialized'))]_vars

\* C2 (amended): whenever the graph of the registered modules has a cycle,
\* none of the three passes invokes a module operation, changes a module's
\* state or changes the initialized flag.  stopModules throws 'Circular
\* dependency'; initializeModules throws it when the Manager is not yet
\* initialized and otherwise returns at once; startModules throws it when
\* the Manager is initialized and otherwise throws 'must be initialized'.
C2_CycleRefused ==
    [][(pass.kind = "none" /\ HasCycle(modules, dependencies)) =>
          /\ PassCalled => NoModuleTouched
          /\ InitializeModules =>
                thrown' = IF initialized THEN "none"
                          ELSE "Circular dependency"
          /\ StartModules =>
                thrown' = IF initialized THEN "Circular dependency"
                          ELSE "not initialized"
          /\ StopModules => thrown' = "Circular dependency"]_vars

\* C2 witness: A and B, which depend on each other, are both registered and
\* the pass just called threw the 'Circular dependency' error
C2_Witness ==
    /\ HasCycle(modules, dependencies)
    /\ Len(modules) = 2
    /\ thrown = "Circular dependency"
    /\ \A o \in Objs : state[o] = "UNINITIALIZED"
    /\ ~initialized

\* A depends on B, both are registered and neither is disabled
EnabledEdge(a, b) ==
    /\ DepEdge(modules, dependencies, a, b)
    /\ ~IsDisabled(a)
    /\ ~IsDisabled(b)

\* in this step the loop of a pass calls the operation `hook` of module o
\* and the operation goes on to its on* hook
PassBegins(o, hook) ==
    /\ InSeq(o, modules)
    /\ ~BagIn(Call(o, hook, "pass"), calls)
    /\ BagIn(Call(o, hook, "pass"), calls')

\* C3: for every edge A -> B of registered, enabled modules, at the instant
\* initializeModules begins A.initialize(), B is INITIALIZED, STARTING or
\* RUNNING, whichever onInitialize hooks fail.
C3_PrerequisiteInitialized ==
    [][\A a, b \in Names :
          (EnabledEdge(a, b)
           /\ PassBegins(GetModule(modules, a), "initialize")) =>
              state'[GetModule(modules, b)]
                  \in {"INITIALIZED", "STARTING", "RUNNING"}]_vars

\* C4: for every edge A -> B of registered, enabled modules, at the instant
\* startModules begins A.start(), B is RUNNING, whichever hooks fail.
C4_PrerequisiteRunning ==
    [][\A a, b \in Names :
          (EnabledEdge(a, b)
           /\ PassBegins(GetModule(modules, a), "start")) =>
              state'[GetModule(modules, b)] = "RUNNING"]_vars

\* C5: for every edge A -> B of registered modules, when stopModules makes
\* B enter STOPPING (no operation other than the pass being in progress), a
\* dependant A that was running or stopping has reached STOPPED, whichever
\* onStop hooks fail.
C5_DependantStoppedFirst ==
    [][\A a, b \in Names :
          (DepEdge(modules, dependencies, a, b)
           /\ PassBegins(GetModule(modules, b), "stop")
           /\ (\A c \in BagToSet(calls) : c.cont = "pass")
           /\ state[GetModule(modules, a)] \in {"RUNNING", "STOPPING"}) =>
              state'[GetModule(modules, a)] = "STOPPED"]_vars

\* C6: in every reachable state, every registered module that is RUNNING
\* has each of its registered dependencies RUNNING or disabled.
C6_RunningDependenciesRunning ==
    \A a, b \in Names :
        (DepEdge(modules, dependencies, a, b)
         /\ state[GetModule(modules, a)] = "RUNNING") =>
            (state[GetModule(modules, b)] = "RUNNING" \/ IsDisabled(b))

\* C7: every change of a module's state made by initialize, start, stop,
\* restart and reset is a transition of the table of legal transitions; a
\* call made in a state from which the table lists no transition is refused
\* and changes nothing (so no step makes a transition outside the table).
C7_OnlyLegalTransitions == illegal = {}

\* C8: registerModule called with a module whose name is already registered
\* throws, and the registry, the registered module's listeners and every
\* module's state are as before.
C8_DuplicateRefused ==
    [][\A o \in Objs :
          (Registered(modules, NameOf(o)) /\ RegisterModule(o)) =>
              /\ thrown' = "already registered"
              /\ modules' = modules
              /\ listeners' = listeners
              /\ state' = state
              /\ lastError' = lastError]_vars

\* C8 witness: a second instance named A was refused while the first one,
\* registered and RUNNING, is still the module the registry holds
C8_Witness ==
    /\ thrown = "already registered"
    /\ InSeq("A", modules)
    /\ ~InSeq("A2", modules)
    /\ state["A"] = "RUNNING"
    /\ listeners["A"] = 1
    /\ listeners["A2"] = 0

\* C9: a module disabled in its metadata or in its config document never
\* leaves UNINITIALIZED, is never in the registry and never has a snapshot
\* ring.
C9_DisabledNeverActive ==
    \A n \in Names :
        IsDisabled(n) =>
            /\ \A o \in Objs : NameOf(o) = n => state[o] = "UNINITIALIZED"
            /\ ~Registered(modules, n)
            /\ snapshots[n] = <<>>

\* the positions in queue q of the modules that the loop of a pass of that
\* kind does not skip (the failure of the awaited module changes the state
\* of no module of the queue)
Operable(kind, q) == {i \in DOMAIN q : Accepts(kind, state[q[i]])}

\* the loop of the pass in progress goes on after the module it awaited:
\* it skips the modules whose state its guard refuses and calls the next
\* one, the rest of the queue still to come; with nothing left to call the
\* pass ends and returns, initializeModules by setting the initialized flag
\* (and calling startModules under autoStart, whose only error is that of a
\* cycle registered meanwhile)
PassGoesOn ==
    LET q == pass.queue
        op == Operable(pass.kind, q)
    IN  IF op # {}
        THEN LET k == CHOOSE i \in op : \A j \in op : i <= j
             IN  /\ BagIn(Call(q[k], pass.kind, "pass"), calls')
                 /\ pass' = [pass EXCEPT !.queue = SubSeq(q, k + 1, Len(q))]
                 /\ thrown' = "none"
        ELSE IF pass.kind = "initialize"
        THEN /\ initialized'
             /\ \/ thrown' = "none"
                \/ /\ autoStart
                   /\ HasCycle(modules, dependencies)
                   /\ thrown' = "Circular dependency"
        ELSE /\ pass' = NoPass
             /\ thrown' = "none"

C11_AtMostMaxAttempts == \A n \in Names : attemptsBegun[n] <= MaxAttempts

\* C12: when the onStart of a registered module throws during startModules,
\* exactly one moduleError event with that module's name and operation
\* "start" is emitted on the Manager for the failure.
C12_OneModuleErrorPerFailure ==
    [][\A c \in BagToSet(calls) :
          (c.cont = "pass" /\ c.hook = "start" /\ HookThrows(c)) =>
              events'[<<NameOf(c.obj), "start">>] = 1]_vars

\* C13: with recovery.enabled and maxAttempts >= 1, when the onStart of a
\* module has thrown on its first call, during startModules, and every later
\* call returns, then once the recovery timers have fired the module is
\* RUNNING for good and has no entry in recoveryAttempts.
C13_EventuallyRecovered ==
    fault.thrown ~>
        [](state[fault.module] = "RUNNING" /\ recoveryAttempts[fault.module] = 0)

\* C13 witness: the faulty module's first onStart has thrown, every timer
\* has fired, and the module is RUNNING with its counter cleared
C13_Witness ==
    /\ fault.thrown
    /\ \A n \in Names : timers[n] = 0
    /\ calls = EmptyBag
    /\ state[fault.module] = "RUNNING"
    /\ recoveryAttempts[fault.module] = 0
    /\ \A o \in available : state[o] = "RUNNING"

\* this step is the return of stopModules: the step that ends its loop, or
\* the call itself when no module was there to stop
StopModulesReturns ==
    /\ pass'.kind = "none"
    /\ thrown' = "none"
    /\ pass.kind = "stop" \/ StopModules

\* the registered modules that were RUNNING when the stopModules that
\* returns in this step was called
WasRunning ==
    IF pass.kind = "stop" THEN pass.running
    ELSE {o \in Range(modules) : state[o] = "RUNNING"}

C15_HealthCountsEveryCall ==
    [][\A c \in BagToSet(calls) :
          LET m == metrics[NameOf(c.obj)]
              m2 == metrics'[NameOf(c.obj)]
          IN  (/\ c.cont = "pass"
               /\ NameOf(c.obj) \in healthTracked
               /\ m.count[c.hook] < MaxCalls
               /\ m.failures[c.hook] < MaxCalls) =>
                  /\ HookReturns(c) =>
                        /\ m2.count[c.hook] = m.count[c.hook] + 1
                        /\ m2.failures[c.hook] = m.failures[c.hook]
                  /\ HookThrows(c) =>
                        /\ m2.count[c.hook] = m.count[c.hook] + 1
                        /\ m2.failures[c.hook] = m.failures[c.hook] + 1]_vars

\* this step takes exactly one snapshot: a call of takeSnapshot, a tick of
\* the interval timer, start(), or the second half of analyzeMemory
TakesOneSnapshot ==
    TakeSnapshot \/ InspectorTick \/ InspectorStart \/ AnalyzeMemoryResumes

\* C16: the snapshot ring of every module holds at most maxSnapshots
\* snapshots in every reachable state (the rings are empty at first), and a
\* snapshot taken on a full ring removes the oldest snapshot and no other:
\* the ring is then the previous one without its head, the new snapshot last.
C16_RingBoundedOldestEvicted ==
    [][/\ \A n \in Names : Len(snapshots'[n]) <= maxSnapshots
       /\ \A n \in Names :
             (/\ TakesOneSnapshot
              /\ Registered(modules, n)
              /\ ~disabled[n]
              /\ Len(snapshots[n]) = maxSnapshots) =>
                 snapshots'[n] = Append(Tail(snapshots[n]), Snapshot)]_vars

\* C16 witness: the ring of A is full; it holds snapshots taken at
\* different times with different heap sizes, the newest of them taken now
\* and none at time 0
C16_Witness ==
    /\ Len(snapshots["A"]) = maxSnapshots
    /\ maxSnapshots >= 2
    /\ snapshots["A"][1].timestamp > 0
    /\ snapshots["A"][1].timestamp < snapshots["A"][2].timestamp
    /\ snapshots["A"][1].heapUsed # snapshots["A"][2].heapUsed
    /\ snapshots["A"][maxSnapshots] = Snapshot

\* C17: compareVersions is antisymmetric on dotted numeric version
\* strings: compareVersions(a, b) = -compareVersions(b, a), and its result
\* is -1, 0 or 1.
C17_Antisymmetric ==
    compared.done =>
        /\ compared.ab = -compared.ba
        /\ compared.ab \in {-1, 0, 1}
        /\ compared.ba \in {-1, 0, 1}

\* C17 witness: "9.10" and "9.10.9" compared both ways: -1 and 1
C17_Witness ==
    /\ compared.done
    /\ versions[1] = <<<<9>>, <<1, 0>>>>
    /\ versions[2] = <<<<9>>, <<1, 0>>, <<9>>>>
    /\ compared.ab = -1
    /\ compared.ba = 1

RECURSIVE PowerOfTen(_)
PowerOfTen(k) == IF k = 0 THEN 1 ELSE 10 * PowerOfTen(k - 1)

\* the number a string of decimal digits denotes
RECURSIVE DecimalValue(_)
DecimalValue(digits) ==
    IF digits = <<>> THEN 0
    ELSE Head(digits) * PowerOfTen(Len(digits) - 1) + DecimalValue(Tail(digits))

\* the numeric components of v, padded with zeros to n components
Padded(v, n) ==
    [i \in 1..n |-> IF i <= Len(v) THEN DecimalValue(v[i]) ELSE 0]

\* the sign of the lexicographic comparison of two sequences of numbers of
\* the same length
LexSign(s, t) ==
    IF s = t THEN 0
    ELSE LET k == CHOOSE i \in DOMAIN s :
                      s[i] # t[i] /\ \A j \in 1..(i - 1) : s[j] = t[j]
         IN  IF s[k] > t[k] THEN 1 ELSE -1

\* C18: compareVersions(a, b) is the sign of the lexicographic comparison
\* of the numeric component sequences of a and b, the shorter padded with
\* zeros: 0 exactly when the padded sequences are equal, the components
\* compared as numbers ("10" above "9"), and the order it induces is
\* transitive.
C18_LexicographicNumeric ==
    compared.done =>
        LET a == versions[1]
            b == versions[2]
            n == Max(Len(a), Len(b))
        IN  /\ compared.ab = LexSign(Padded(a, n), Padded(b, n))
            /\ (compared.ab = 0) <=> (Padded(a, n) = Padded(b, n))
            /\ (compared.ab <= 0 /\ compared.bc <= 0) => compared.ac <= 0
            /\ (compared.ab < 0 /\ compared.bc <= 0) => compared.ac < 0
            /\ (compared.ab <= 0 /\ compared.bc < 0) => compared.ac < 0

\* C18 witness: a = "0.10", b = "0.9.0" and c = "0.9": a is above b although
\* "10" is below "9" as text, b equals c once c is padded, and a is above c
C18_Witness ==
    /\ compared.done
    /\ versions[1] = <<<<0>>, <<1, 0>>>>
    /\ versions[2] = <<<<0>>, <<9>>, <<0>>>>
    /\ versions[3] = <<<<0>>, <<9>>>>
    /\ compared.ab = 1
    /\ compared.bc = 0
    /\ compared.ac = 1

HooksInProgress(o) == {c \in BagToSet(calls) : c.obj = o}

\* C20: under any interleaving of the Manager's passes, restartModule,
\* recoverModule, loadModuleOnDemand and the recovery timers, no module has
\* two of its onInitialize/onStart/onStop hooks in progress at once.
C20_OneHookPerModule ==
    \A o \in Objs :
        /\ Cardinality(HooksInProgress(o)) <= 1
        /\ \A c \in HooksInProgress(o) : CopiesIn(c, calls) = 1

\* C20 witness: a recovery timer has fired for B and B's onInitialize is in
\* progress on its behalf, while a hook of A is in progress too
C20_Witness ==
    /\ \E c \in HooksInProgress("B") : c.cont = "recoverInit"
    /\ HooksInProgress("A") # {}

\* the loop awaits the hook of the plugin that follows in the same phase
NextPluginAwaited == pluginCall' = [pluginCall EXCEPT !.index = @ + 1]

\* the loop is still at the same module of the same pass
SameModule == pass'.kind = pass.kind /\ pass'.queue = pass.queue

\* modules that the pass in progress would operate on remain in its queue
WorkRemains == \E i \in DOMAIN pass.queue : ~Skips(pass.kind, state[pass.queue[i]])

\* C21: a throw from a plugin hook is only logged.  Nothing reaches the
\* caller of the pass and no moduleError is emitted; after a throw of a
\* before-hook the loop goes on to the next plugin's before-hook or calls the
\* module's initialize/start/stop; and the pass is not aborted: while modules
\* it would operate on remain, it is still in progress.
C21_PluginThrowOnlyLogged ==
    [][PluginHookThrows =>
          /\ thrown' = "none"
          /\ events' = NoEvents
          /\ pluginCall.phase = "before" =>
                SameModule /\ (NextPluginAwaited \/ pass'.operated)
          /\ WorkRemains => pass'.kind = pass.kind]_vars

\* the hooks of a phase, one per registered plugin, in registration order
AllHooks(phase) == [i \in DOMAIN plugins |-> <<phase, plugins[i]>>]

\* the hooks of a phase among those over for the module the loop is at, the
\* hook that is over in this step included
HooksOver(phase) ==
    SelectSeq(IF pluginCall = NoPluginCall THEN pass.hooks
              ELSE Append(pass.hooks,
                          <<pluginCall.phase, plugins[pluginCall.index]>>),
              LAMBDA h : h[1] = phase)

\* the loop calls the operation of the module it is at
OperationCalled == pass'.operated /\ ~(pass.operated /\ SameModule)

\* the loop leaves the module it is at, for the next module or the end of
\* the loop (the pass is not left by an exception)
PassProceeds == pass.kind # "none" /\ ~SameModule /\ thrown' = "none"

\* C30: in a pass, the before-hook of every registered plugin is over, in
\* registration order, when the module's operation is called; and once the
\* after-hooks of a module have begun, the after-hook of every registered
\* plugin is over, in registration order, when the pass proceeds to the next
\* module (or ends).
C30_PluginHooksAwaitedInOrder ==
    [][/\ OperationCalled => HooksOver("before") = AllHooks("before")
       /\ (PassProceeds /\ HooksOver("after") # <<>>) =>
              HooksOver("after") = AllHooks("after")]_vars

\* a directory whose module class is there and is not disabled
Loadable(dir) == dir \in Objs /\ ~IsDisabled(NameOf(dir))

\* C22: a failure of one directory does not abort loadModules.  loadModules
\* never throws; and when all its directories are over it has returned,
\* having validated the dependencies, with a module registered for every
\* loadable directory and every directory counted as loaded, disabled or
\* failed.
C22_LoadFailureDoesNotAbort ==
    /\ batch.outcome # "threw"
    /\ (batch.outcome # "none" /\ batch.pending = {}) =>
          /\ batch.outcome = "returned"
          /\ batch.validated
          /\ \A dir \in batch.dirs :
                Loadable(dir) => Registered(modules, NameOf(dir))
          /\ batch.loadedCount = Len(modules)
          /\ batch.loadedCount + batch.disabledCount + batch.errorCount
                 = Cardinality(batch.dirs)

\* a module that broadcastEvent is to deliver to when the loop reaches it
Receives(o) ==
    /\ NameOf(o) # broadcast'.source
    /\ state'[o] = "RUNNING"
    /\ NameOf(o) \in eventHandlers

\* the registry indices the loop of broadcastEvent passes in this step
Passed ==
    {j \in DOMAIN modules' :
        /\ j <= broadcast'.position
        /\ j > (IF broadcast.active THEN broadcast.position ELSE 0)}

\* the loop of broadcastEvent advances: the call, or the end of an onEvent
BroadcastAdvances ==
    \/ ~broadcast.active /\ broadcast'.active
    \/ broadcast.awaiting /\ ~broadcast'.awaiting
    \/ broadcast.awaiting /\ broadcast'.position # broadcast.position
    \/ ~broadcast.active /\ broadcast'.position # broadcast.position

\* C23: broadcastEvent calls onEvent on the registered modules that, when
\* the loop reaches them, are RUNNING and are not the source (and define
\* onEvent), and on no other: each module the loop passes is awaited if and
\* only if it is such a module, so the receivers are called once each in
\* registry insertion order; an onEvent that throws throws nothing to the
\* caller and the loop goes on to the modules that follow.
C23_BroadcastToRunningOthers ==
    [][BroadcastAdvances =>
          /\ thrown' = "none"
          /\ \A j \in Passed :
                Receives(modules'[j]) <=>
                    (j = broadcast'.position /\ broadcast'.awaiting)
          /\ broadcast'.active <=> broadcast'.awaiting
          /\ broadcast'.awaiting => broadcast'.position \in DOMAIN modules'
          /\ ~broadcast'.awaiting => broadcast'.position > Len(modules')
          /\ \A i, j \in DOMAIN broadcast'.received :
                i < j => IndexOf(broadcast'.received[i], modules')
                             < IndexOf(broadcast'.received[j], modules')
          /\ \A i \in DOMAIN broadcast'.received :
                NameOf(broadcast'.received[i]) # broadcast'.source]_vars

\* C23 witness: a broadcast is over in which the onEvent of the first
\* receiver threw and the second receiver was called all the same
C23_Witness ==
    /\ ~broadcast.active
    /\ Len(broadcast.received) = 2
    /\ broadcast.received[1] \in broadcast.failed

\* the stopModules the signal handler called has returned
ShutdownCompletes ==
    main'.stopModulesCalls = 1 /\ pass'.kind = "none" /\ thrown' = "none"

\* C24: the handlers of SIGINT and SIGTERM drive one shutdown.  Whatever
\* signals are delivered, stopModules is called at most once; a signal
\* delivered while shuttingDown is set exits with code 1; so does the timer
\* shutdownTimeout when it fires, and a shutdown that throws (the leak check,
\* or stopModules); the process exits with code 0 exactly when the
\* stopModules of the handler has returned before any of these.
C24_SingleShutdown ==
    [][/\ main'.stopModulesCalls <= 1
       /\ ((\E signal \in Signals : Signal(signal)) /\ main.shuttingDown) =>
              main'.exit = {1}
       /\ ShutdownTimeout => main'.exit = {1}
       /\ LeakCheckThrows => main'.exit = {1}
       /\ (main.shuttingDown /\ main.exit = {} /\ thrown' # "none") =>
              main'.exit = {1}
       /\ (main.shuttingDown /\ main.exit = {}) =>
              (main'.exit = {0} <=> ShutdownCompletes)
       /\ main.shuttingDown \/ main'.shuttingDown \/ main'.exit # {0}
       /\ main.exit # {} => main'.exit = main.exit]_vars

\* C24 witness: the process has exited with code 0 after a shutdown that
\* stopped a module
C24_Witness ==
    /\ main.exit = {0}
    /\ main.stopModulesCalls = 1
    /\ \E o \in Objs : state[o] = "STOPPED"

\* a shutdown exited with code 1 because stopModules threw
StopModulesThrewAtShutdown ==
    /\ main.exit = {1}
    /\ main.stopModulesCalls = 1
    /\ thrown = "plugin error"


(***************************************************************************)
(* C25.  analyzeMemoryUsage reports a module if and only if its ring has   *)
(* at least two snapshots, the oldest and the newest of them are at least  *)
(* 0.01 hour (36 seconds) apart, and its growth rate r, the growth of      *)
(* heapUsed in MB from the oldest to the newest divided by the hours       *)
(* between them, is at least `low`; the result carries r, and its severity *)
(* is high when r >= high, medium when medium <= r < high, low when        *)
(* low <= r < medium.  With the thresholds 5/20/50, 25 MB over one hour    *)
(* are reported with severity medium and rate 25.  (The thresholds are     *)
(* such that low <= medium <= high.)                                       *)
(***************************************************************************)
Oldest(ring) == ring[1]

Newest(ring) == ring[Len(ring)]

\* the seconds between the oldest and the newest snapshot
SecondsApart(ring) == (Newest(ring).timestamp - Oldest(ring).timestamp) \div 1000

\* the growth of the heap in MB
GrowthMB(ring) ==
    CHOOSE mb \in -50..50 :
        mb * 1048576 = Newest(ring).heapUsed - Oldest(ring).heapUsed

\* r >= t, for a ring whose ends are apart: MB / (seconds / 3600) >= t
RateReaches(ring, t) == GrowthMB(ring) * 3600 >= t * SecondsApart(ring)

Analyzable(ring) == Len(ring) >= 2 /\ SecondsApart(ring) >= 36

ExpectedSeverity(ring) ==
    IF ~Analyzable(ring) \/ ~RateReaches(ring, thresholds.low) THEN "none"
    ELSE IF RateReaches(ring, thresholds.high) THEN "high"
    ELSE IF RateReaches(ring, thresholds.medium) THEN "medium"
    ELSE "low"

\* the reported rate is r: num / den = MB * 3600 / seconds
RateIs(growthRate, ring) ==
    (growthRate.num \div 1000) * SecondsApart(ring)
        = GrowthMB(ring) * 3600 * (growthRate.den \div 1000)

OneHour25MB(ring) ==
    /\ Len(ring) >= 2
    /\ SecondsApart(ring) = 3600
    /\ GrowthMB(ring) = 25

AnalysisAsSpecified(n) ==
    LET ring == snapshots[n]
        leak == leaks'[n]
    IN  /\ leak.reported = (ExpectedSeverity(ring) # "none")
        /\ leak.severity = ExpectedSeverity(ring)
        /\ leak.reported => RateIs(leak.growthRate, ring)
        /\ (thresholds = DefaultThresholds /\ OneHour25MB(ring)) =>
               /\ leak.severity = "medium"
               /\ leak.growthRate.num = 25 * leak.growthRate.den

StartModulesRefused ==
    LET w == startModules(World)
    IN  /\ w.thrown = "not initialized"
        /\ w.calls = calls
        /\ w.state = state
        /\ w.pass = pass
        /\ w.initialized = initialized

\* the loop of a pass of this kind ends in this step: the pass was at its
\* last awaited hook, or is called and has no hook to await
LoopEnds(kind) ==
    /\ pass.kind \in {kind, "none"}
    /\ pass'.kind # kind

C26_StartRequiresInitialized ==
    [][/\ ~initialized => StartModulesRefused
       /\ (~initialized /\ initialized') => LoopEnds("initialize")
       /\ (pass.kind = "initialize" /\ pass'.kind # "initialize") =>
              initialized'
       /\ (initialized /\ ~initialized') =>
              (LoopEnds("stop") \/ modules' = <<>>)
       /\ (pass.kind = "stop" /\ pass'.kind # "stop") => ~initialized'
      ]_vars

\* startModules has thrown "not initialized" after a stopModules pass, with
\* a stopped module in the registry
C26_Witness ==
    /\ thrown = "not initialized"
    /\ ~initialized
    /\ \E i \in DOMAIN modules : state[modules[i]] = "STOPPED"

\* initialized is true although the initialization of B failed
InitializedDespiteFailure ==
    /\ ~autoStart
    /\ pass.kind = "none"
    /\ initialized
    /\ state["B"] = "ERROR"
    /\ state["A"] = "INITIALIZED"
    /\ modules = <<"A", "B">>


(***************************************************************************)
(* C27.  A moduleError whose operation is "initialization", and any        *)
(* moduleError emitted while recovery.enabled is false, schedules no       *)
(* recovery timer and leaves the recovery attempt counter as it is; every  *)
(* other moduleError, emitted while the module's counter is below          *)
(* maxAttempts, adds one to the counter and schedules exactly one timer.   *)
(* Stated for the moduleError events of one step: of the events that count *)
(* (recovery enabled, operation other than "initialization"), as many as   *)
(* the counter has room for add one to it and schedule one timer each.     *)
(***************************************************************************)
\* the moduleError events of the step for module n that the supervisor is
\* to act on
Recoverable(n) ==
    IF recoveryEnabled
    THEN events'[<<n, "start">>] + events'[<<n, "stop">>]
    ELSE 0

\* some moduleError is emitted for n in the step
Emitted(n) == \E op \in Operations : events'[<<n, op>>] > 0

Room(n) == MaxAttempts - recoveryAttempts[n]

Acted(n) == IF Recoverable(n) < Room(n) THEN Recoverable(n) ELSE Room(n)

SupervisorActs(n) ==
    Emitted(n) =>
        /\ recoveryAttempts'[n] = recoveryAttempts[n] + Acted(n)
        /\ timers'[n] = timers[n] + Acted(n)

C27_RecoveryScheduledPerModuleError ==
    [][\A n \in Names : SupervisorActs(n)]_vars

\* a start failure of B has been counted and its timer is pending, after an
\* initialization failure that scheduled nothing
C27_Witness ==
    /\ recoveryEnabled
    /\ events[<<"B", "start">>] > 0
    /\ recoveryAttempts["B"] > 0
    /\ timers["B"] > 0
    /\ recoveryAttempts["A"] = 0
    /\ timers["A"] = 0
    /\ state["A"] = "ERROR"

\* an initialization failure with recovery enabled: nothing is scheduled
InitializationNotRecovered ==
    /\ recoveryEnabled
    /\ \E n \in Names : /\ events[<<n, "initialization">>] > 0
                        /\ recoveryAttempts[n] = 0
                        /\ timers[n] = 0

\* a failure of a start with recovery disabled
NotRecoveredWhenDisabled ==
    /\ ~recoveryEnabled
    /\ \E n \in Names : events[<<n, "start">>] > 0

\* a moduleError that finds the counter at maxAttempts
CounterExhausted ==
    \E n \in Names : /\ events[<<n, "start">>] > 0
                     /\ recoveryAttempts[n] = MaxAttempts
                     /\ timers[n] = 0


(***************************************************************************)
(* C28.  When the onInitialize, onStart or onStop hook of a direct call of *)
(* initialize(), start() or stop() throws, the operation leaves the module *)
(* in ERROR with lastError set, emits one error signal with the operation  *)
(* "initialization", "start" or "stop" (each listener of the module hears  *)
(* it once, and no other) and rethrows to its caller; when the hook        *)
(* returns the operation leaves the module in INITIALIZED, RUNNING or      *)
(* STOPPED, emits no error signal and returns.                             *)
(***************************************************************************)
\* the hook of call c is over in this step
HookOver(c) == BagIn(c, calls) /\ calls' = calls (-) SetToBag({c})

\* what the listeners the Manager installed on a module hear of it in the
\* step: one moduleError per error signal and listener
Heard(o, operation) == events'[<<NameOf(o), operation>>]

OperationFailed(c) ==
    /\ thrown' = "hook error"
    /\ state'[c.obj] = "ERROR"
    /\ lastError'[c.obj]
    /\ \A op \in Operations :
           Heard(c.obj, op) =
               IF op = Operation(c.hook) THEN listeners[c.obj] ELSE 0

OperationSucceeded(c) ==
    /\ thrown' = "none"
    /\ state'[c.obj] = SuccessState(c.hook)
    /\ \A op \in Operations : Heard(c.obj, op) = 0

C28_HookOutcome ==
    [][\A c \in Calls :
           HookOver(c) => (OperationFailed(c) \/ OperationSucceeded(c))]_vars

\* onStart of the registered module A has thrown: A is in ERROR, the error
\* is recorded, its listener has heard one error signal of operation
\* "start", and start() has rethrown
C28_Witness ==
    /\ thrown = "hook error"
    /\ state["A"] = "ERROR"
    /\ lastError["A"]
    /\ listeners["A"] = 1
    /\ events[<<"A", "start">>] = 1
    /\ events[<<"A", "initialization">>] = 0
    /\ events[<<"A", "stop">>] = 0

\* onStop has returned: A is STOPPED and nothing was thrown
StopSucceeded ==
    /\ state["A"] = "STOPPED"
    /\ thrown = "none"
    /\ events = NoEvents
    /\ calls = EmptyBag

(***************************************************************************)
(* C29.  A refused lifecycle call changes nothing: initialize() on a       *)
(* module whose state is not UNINITIALIZED, start() on a module whose      *)
(* state is neither INITIALIZED nor STOPPED, and stop() on a module whose  *)
(* state is not RUNNING return normally, begin no hook, emit neither       *)
(* stateChange nor error, and leave state and lastError as they are.       *)
(***************************************************************************)
Refused(hook, s) ==
    CASE hook = "initialize" -> s # "UNINITIALIZED"
      [] hook = "start" -> s \notin {"INITIALIZED", "STOPPED"}
      [] hook = "stop" -> s # "RUNNING"

\* what a direct call of the operation would do in this state
NothingChanges(o, hook) ==
    LET w == beginOperation(World, o, hook, "none")
    IN  /\ w.thrown = "none"
        /\ w.calls = calls
        /\ w.state = state
        /\ w.lastError = lastError
        /\ w.events = NoEvents
        /\ w.illegal = {}
        /\ w = World

C29_RefusedCallChangesNothing ==
    \A o \in available, hook \in Hooks :
        Refused(hook, state[o]) => NothingChanges(o, hook)

\* onInitialize of the registered module A is in progress: a second
\* initialize(), a start() and a stop() are refused meanwhile
C29_Witness ==
    /\ state["A"] = "INITIALIZING"
    /\ listeners["A"] = 1
    /\ BagIn(Call("A", "initialize", "none"), calls)


(***************************************************************************)
(* C31.  loadModuleOnDemand is a load-plus-initialize-plus-start pipeline: *)
(* whenever it returns a module that was not registered before the call,   *)
(* that module is registered and RUNNING when the call returns; and it     *)
(* returns undefined when the module is disabled or cannot be loaded.      *)
(***************************************************************************)
C31_OnDemandReturnsRunning ==
    \A o \in Objs :
        /\ returned[o] = "module" =>
               /\ InSeq(o, modules)
               /\ state[o] = "RUNNING"
        /\ (returned[o] \in {"module", "undefined"}
               /\ (IsDisabled(NameOf(o)) \/ o \notin available)) =>
               returned[o] = "undefined"

\* the second half is exercised: undefined is returned for a disabled module
\* and for a module that is not to be found
OnDemandUndefined ==
    /\ \E o \in available : IsDisabled(NameOf(o)) /\ returned[o] = "undefined"

OnDemandMissing == \E o \in Objs \ available : returned[o] = "undefined"

\* the pipeline at its full length: a module loaded on demand is returned
\* RUNNING
OnDemandRunning ==
    \E o \in Objs : returned[o] = "module" /\ state[o] = "RUNNING"


(***************************************************************************)
(* C32.  Cache entries expire lazily on read.  setCachedData(k, d) at time *)
(* t stores (t, d) under k; getCachedData(k, maxAge) at time t' returns    *)
(* the data of k's entry when there is one and t' - t <= maxAge, and       *)
(* otherwise returns undefined and leaves no entry under k, so that later  *)
(* reads of k return undefined until the next setCachedData(k, _); no call *)
(* changes the entry of another key, and nothing else changes the cache.   *)
(***************************************************************************)
CacheCallAsSpecified ==
    LET c == cacheCall'
        entry == moduleCache[c.key]
    IN  CASE c.op = "set" ->
                moduleCache'[c.key] =
                    [timestamp |-> now, data |-> c.data, present |-> TRUE]
          [] c.op = "get" ->
                IF entry.present /\ now - entry.timestamp <= c.maxAge
                THEN c.result = entry.data /\ moduleCache' = moduleCache
                ELSE c.result = "undefined" /\ ~moduleCache'[c.key].present
          [] OTHER -> moduleCache' = moduleCache

C32_LazyExpiry ==
    [][IF now' # now THEN moduleCache' = moduleCache
       ELSE /\ CacheCallAsSpecified
            /\ \A k \in CacheKeys \ {cacheCall'.key} :
                   moduleCache'[k] = moduleCache[k]]_vars

\* a read of k1 with maxAge 0 after time has passed has returned undefined
\* and k1 has no entry, while the entry of k2, written at time 0, is kept
C32_Witness ==
    /\ cacheCall.op = "get"
    /\ cacheCall.key = "k1"
    /\ cacheCall.maxAge = 0
    /\ cacheCall.result = "undefined"
    /\ ~moduleCache["k1"].present
    /\ moduleCache["k2"].present
    /\ moduleCache["k2"].timestamp = 0
    /\ now > 0

\* a read within maxAge returns the data
CacheHit ==
    /\ cacheCall.op = "get"
    /\ cacheCall.result = "d2"
    /\ now - moduleCache[cacheCall.key].timestamp = cacheCall.maxAge
    /\ cacheCall.maxAge > 0


(***************************************************************************)
(* C33.  deleteConfig(name) removes the map entry: when deleteConfig(name) *)
(* has returned, hasConfig(name) is false and getConfig(name) is the empty *)
(* object, whatever calls of loadConfig, saveConfig and updateConfig came  *)
(* before, a loadConfig(name) for a name without file included.            *)
(***************************************************************************)
C33_DeleteRemovesEntry ==
    configCall.op = "delete" =>
        /\ ~hasConfig(World, configCall.name)
        /\ getConfig(World, configCall.name) = {}

\* deleteConfig has removed the file and the entry of a saved configuration
DeleteRemovedSaved ==
    /\ configCall.op = "delete"
    /\ configCall.ok
    /\ ~hasConfig(World, configCall.name)


\* a registered module whose error is recorded although it is not in ERROR:
\* hasError() without state ERROR (not reachable through the Manager)
RecordedOutsideError ==
    \E o \in Objs :
        /\ Registered(modules, NameOf(o))
        /\ GetModule(modules, NameOf(o)) = o
        /\ lastError[o]
        /\ state[o] # "ERROR"


(***************************************************************************)
(* C34: recoverModule(name) requires state ERROR.  For a name that is not  *)
(* registered or whose module is not in ERROR it returns false and changes *)
(* no module state, no counter and no call.  Otherwise it resets the       *)
(* module, calls initialize and, when that has returned, start; it returns *)
(* true exactly when the module ends in RUNNING, and the recovery attempt  *)
(* counter is cleared in that case and in no other.                        *)
(***************************************************************************)
\* the call is refused: nothing but its result differs
RecoverRefused(n) ==
    recoverModule(World, n) =
        IF recoverReturned[n] = "pending" THEN World
        ELSE [World EXCEPT !.recoverReturned[n] = "false"]

\* the call resets the module and awaits initialize()
RecoverBegins(n) ==
    LET o == GetModule(modules, n)
        w == recoverModule(World, n)
    IN  /\ w.recoverReturned[n] = "pending"
        /\ w.state[o] = "INITIALIZING"
        /\ ~w.lastError[o]
        /\ w.calls = calls (+) SetToBag({Call(o, "initialize", "recoverInit")})
        /\ w.recoveryAttempts = recoveryAttempts

\* what a call of recoverModule does in the present state
RecoverRequiresError ==
    \A n \in Names :
        IF Registered(modules, n) /\ state[GetModule(modules, n)] = "ERROR"
        THEN RecoverBegins(n)
        ELSE RecoverRefused(n)

\* an awaited recovery goes from initialize to start, and ends with true and
\* the counter cleared when the module is RUNNING, else with false and the
\* counter not cleared
RecoverEnds ==
    \A n \in Names :
        recoverReturned[n] = "pending" =>
            LET o == GetModule(modules, n)
            IN  /\ recoverReturned'[n] = "pending" /\ state[o] = "INITIALIZING"
                   /\ state'[o] # "INITIALIZING"
                       => /\ state'[o] = "STARTING"
                          /\ BagIn(Call(o, "start", "recoverStart"), calls')
                /\ recoverReturned'[n] = "true"
                       => /\ state[o] = "STARTING"
                          /\ state'[o] = "RUNNING"
                          /\ recoveryAttempts'[n] = 0
                /\ recoverReturned'[n] = "false"
                       => /\ state'[o] = "ERROR"
                          /\ recoveryAttempts'[n] >= recoveryAttempts[n]
                /\ recoverReturned'[n] = "pending"
                       => recoveryAttempts'[n] >= recoveryAttempts[n]
                /\ recoverReturned'[n] # "none"

C34_RecoverModule == []RecoverRequiresError /\ [][RecoverEnds]_vars

\* C34 witness: recoverModule has returned true for A, which is RUNNING;
\* the counter, which had counted the failure whose timer is still pending,
\* is cleared
C34_Witness ==
    /\ recoverReturned["A"] = "true"
    /\ state["A"] = "RUNNING"
    /\ recoveryAttempts["A"] = 0
    /\ timers["A"] > 0

\* a call of recoverModule ended with false after the hook threw
RecoverFailed ==
    /\ recoverReturned["A"] = "false"
    /\ state["A"] = "ERROR"
    /\ recoveryAttempts["A"] > 1


(***************************************************************************)
(* C35: initialization, start and stop are strictly sequential: in every   *)
(* reachable state at most one registered module is in a transient state   *)
(* (INITIALIZING, STARTING or STOPPING), whatever the interleaving of the  *)
(* passes with the recovery timers, recoverModule, restartModule and       *)
(* loadModuleOnDemand.                                                     *)
(***************************************************************************)
TransientStates == {"INITIALIZING", "STARTING", "STOPPING"}

\* the registered modules that are in a transient state
TransientModules ==
    {n \in Names : /\ Registered(modules, n)
                   /\ state[GetModule(modules, n)] \in TransientStates}

C35_OneTransientModule == Cardinality(TransientModules) <= 1


\* a pass awaits the hook of one module while a recovery or restartModule
\* awaits the hook of another
PassAndRecoveryInFlight ==
    \E c \in Calls, d \in Calls :
        /\ c.obj # d.obj
        /\ c.cont = "pass"
        /\ d.cont \in {"recoverInit", "recoverStart", "thenStart"}
        /\ BagIn(c, calls)
        /\ BagIn(d, calls)


(***************************************************************************)
(* C36: with an unchanged registry and no failures, the order in which     *)
(* stopModules stops the modules is exactly the reverse of the order in    *)
(* which startModules started them; for A depending on B and C, B on C,    *)
(* and default priorities the modules start in the order C, B, A and stop  *)
(* in the order A, B, C.                                                   *)
(***************************************************************************)
IsPrefix(s, t) == Len(s) <= Len(t) /\ \A i \in 1..Len(s) : s[i] = t[i]

\* the registry is the one the modules were started on
RegistryUnchanged == modules = passOrder.registry

\* scenario 1 of spec.md, all three modules started
ScenarioOne ==
    /\ dependencies = [NoDeps EXCEPT !["A"] = <<"B", "C">>, !["B"] = <<"C">>]
    /\ priority = DefaultPriorities
    /\ Len(passOrder.start) = Cardinality(Names)

C36_StopReversesStart ==
    RegistryUnchanged /\ passOrder.stop # <<>> =>
        /\ IsPrefix(passOrder.stop, Reverse(passOrder.start))
        /\ pass.kind = "none" => passOrder.stop = Reverse(passOrder.start)
        /\ ScenarioOne /\ pass.kind = "none" =>
               /\ passOrder.start = <<"C", "B", "A">>
               /\ passOrder.stop = <<"A", "B", "C">>

\* C36 witness: scenario 1 has been started and stopped, the pass is over
C36_Witness ==
    /\ ScenarioOne
    /\ RegistryUnchanged
    /\ pass.kind = "none"
    /\ passOrder.stop = <<"A", "B", "C">>
    /\ \A n \in Names : state[n] = "STOPPED"

\* modules of different priorities have been started and stopped
OrderedByPriority ==
    /\ priority["C"] = HighPriority
    /\ dependencies = NoDeps
    /\ RegistryUnchanged
    /\ pass.kind = "none"
    /\ Len(passOrder.stop) = Cardinality(Names)


(***************************************************************************)
(* C37: in every reachable state the recovery attempt counter of each      *)
(* module is between 0 and maxAttempts inclusive, and the number of        *)
(* recovery timers scheduled for the module since its counter was last     *)
(* cleared equals the counter.                                             *)
(***************************************************************************)
C37_CounterCountsTimers ==
    \A n \in Names :
        /\ recoveryAttempts[n] \in 0..MaxAttempts
        /\ scheduled[n] = recoveryAttempts[n]

\* C37 witness: the counter of A counts again after it was cleared: a timer
\* scheduled before the clearing is still pending with those scheduled since
C37_Witness ==
    /\ recoveryAttempts["A"] > 0
    /\ scheduled["A"] = recoveryAttempts["A"]
    /\ timers["A"] > recoveryAttempts["A"]


(***************************************************************************)
(* C38: once stopModules has returned, no module enters INITIALIZING,      *)
(* STARTING or RUNNING unless initializeModules, startModules,             *)
(* restartModule, recoverModule, createModule or loadModuleOnDemand is     *)
(* called afterwards; a failure of onStop during the shutdown pass, or a   *)
(* recovery timer pending from an earlier failure, brings no module back.  *)
(***************************************************************************)
UpStates == {"INITIALIZING", "STARTING", "RUNNING"}

\* no pass is running and the Manager is not initialized: stopModules has
\* returned since initializeModules last did, or nothing was initialized
ShutDown == pass.kind = "none" /\ ~initialized

\* module o enters one of the states in this step
Enters(o, states) == state'[o] \in states /\ state'[o] # state[o]

\* the step of a Manager that is shut down and stays so (initializeModules
\* is not called) brings no module up
StaysDown == ShutDown /\ ShutDown' => \A o \in Objs : ~Enters(o, UpStates)

C38_DownAfterShutdown == [][StaysDown]_vars

\* the first case C38 names, as a step: the step in which the shutdown pass
\* ends schedules no recovery timer.  With recovery.enabled it does when
\* onStop of the last module throws, and the timer then acts as in the
\* counterexample of C38
NoTimerFromShutdown ==
    ~ShutDown /\ ShutDown' /\ pass.kind = "stop" =>
        \A n \in Names : timers'[n] <= timers[n]

ShutdownSchedulesNothing == [][NoTimerFromShutdown]_vars


\* with recovery.enabled false the Manager driven by its passes stays down
DownWithoutRecovery == [][~recoveryEnabled => StaysDown]_vars


(***************************************************************************)
(* C39: in every reachable state of the health tracker, for every module   *)
(* and operation, failures <= count, and the errorCount of the module is   *)
(* at least the sum of the failures of its three operations; a trackEnd    *)
(* with no pending trackStart for the same module and operation changes no *)
(* metric.                                                                 *)
(***************************************************************************)
\* the failures of the three operations of a module
SumOfFailures(m) ==
    m.failures["initialize"] + m.failures["start"] + m.failures["stop"]

\* a trackEnd for an operation of which no start time is kept changes nothing
UnpairedTrackEndIgnored ==
    \A o \in Objs, operation \in Hooks, success \in BOOLEAN :
        <<NameOf(o), operation>> \notin startTimes =>
            LET w == trackEnd(World, o, operation, success)
            IN  w.metrics = metrics /\ w.startTimes = startTimes

C39_HealthCounters ==
    /\ \A n \in Names :
          /\ \A operation \in Hooks :
                metrics[n].failures[operation] <= metrics[n].count[operation]
          /\ metrics[n].errorCount >= SumOfFailures(metrics[n])
    /\ UnpairedTrackEndIgnored

\* C39 witness: two operations of A have failed, one has succeeded, and a
\* trackEnd would find no start time for initialize
C39_Witness ==
    /\ metrics["A"].failures["initialize"] = 1
    /\ metrics["A"].failures["start"] = 1
    /\ metrics["A"].count["initialize"] = MaxCalls
    /\ metrics["A"].errorCount = MaxCalls
    /\ <<"A", "initialize">> \notin startTimes


(***************************************************************************)
(* C40: for the same snapshot rings and thresholds generateMemoryReport    *)
(* and analyzeMemoryUsage agree: a module is among the findings of         *)
(* analyzeMemoryUsage with severity s if and only if the report lists it   *)
(* with leakProbability s (low, medium or high); every other module with   *)
(* at least two snapshots spanning at least 0.01 hour is listed with       *)
(* leakProbability none; and the moduleStats of the report are in the      *)
(* order of non-increasing growthRate.                                     *)
(***************************************************************************)
\* the ring has two snapshots or more, 0.01 hour (36 s) apart or more
Spans(ring) ==
    /\ Len(ring) >= 2
    /\ ring[Len(ring)].timestamp - ring[1].timestamp >= 36000

\* the entries of the report for module n
Listed(n) ==
    {i \in DOMAIN report.moduleStats : report.moduleStats[i].moduleName = n}

\* the results in `leaks` are those of analyzeMemoryUsage on the present
\* rings, and the report was generated on them
BothCalled == report.done /\ leaks = analyzeMemoryUsage(snapshots)

ReportAgrees(n) ==
    /\ Cardinality(Listed(n)) <= 1
    /\ (Listed(n) # {}) = Spans(snapshots[n])
    /\ \A i \in Listed(n) :
          LET stat == report.moduleStats[i]
          IN  /\ stat.leakProbability = leaks[n].severity
              /\ leaks[n].reported = (stat.leakProbability # "none")
              /\ leaks[n].reported => stat.growthRate = leaks[n].growthRate
    /\ leaks[n].reported => Listed(n) # {}

\* each entry has a growthRate that is not below that of the next
NonIncreasing ==
    \A i \in DOMAIN report.moduleStats :
        i < Len(report.moduleStats) =>
            LET a == Reduced(report.moduleStats[i].growthRate)
                b == Reduced(report.moduleStats[i + 1].growthRate)
            IN  a.num * b.den >= b.num * a.den

C40_ReportAgreesWithAnalysis ==
    /\ BothCalled => \A n \in Names : ReportAgrees(n)
    /\ report.done => NonIncreasing

\* C40 witness: both were called; the ring of the second key of the map
\* grows faster than the ring of the first, so that the report lists it
\* first, with the probability high that analyzeMemoryUsage found for it,
\* and the other with none
C40_Witness ==
    /\ BothCalled
    /\ Len(MapKeys) = 2
    /\ Len(report.moduleStats) = 2
    /\ report.moduleStats[1].moduleName = MapKeys[2]
    /\ report.moduleStats[1].leakProbability = "high"
    /\ leaks[MapKeys[2]].severity = "high"
    /\ report.moduleStats[2].leakProbability = "none"
    /\ ~leaks[MapKeys[1]].reported

=============================================================================
